---- MODULE Spec2Model ----
(***************************************************************************)
(* A model of the three scripts of the repository:                         *)
(*   scripts/claude_tokens_daily.py  (provider "claude")                   *)
(*   scripts/qwen_tokens_daily.py    (provider "qwen")                     *)
(*   scripts/format_log.py           (the log formatter)                   *)
(* Python strings are sequences of one-character strings, so that the      *)
(* string operations of the code (endswith, rsplit, split, slicing) are    *)
(* computed and not assumed.  A JSON value is a tagged record.             *)
(***************************************************************************)
EXTENDS Integers, Sequences, FiniteSets, TLC

(* ------------------------------ strings ------------------------------- *)

DigitChars == <<"0", "1", "2", "3", "4", "5", "6", "7", "8", "9">>

DigitSet == {"0", "1", "2", "3", "4", "5", "6", "7", "8", "9"}

IsDigit(c) == c \in DigitSet

DigitValues == [c \in DigitSet |-> (CHOOSE i \in 1..10 : DigitChars[i] = c) - 1]

DigitVal(c) == DigitValues[c]

\* The characters of s from index i on (s[i-1:] in Python terms).
Drop(s, i) == IF i > Len(s) THEN <<>> ELSE SubSeq(s, i, Len(s))

\* s[:n]
Take(s, n) == IF n >= Len(s) THEN s ELSE SubSeq(s, 1, n)

StartsWith(s, p) == Len(s) >= Len(p) /\ SubSeq(s, 1, Len(p)) = p

EndsWith(s, p) == Len(s) >= Len(p) /\ SubSeq(s, Len(s) - Len(p) + 1, Len(s)) = p

Contains(s, c) == \E i \in 1..Len(s) : s[i] = c

\* Index of the first / last occurrence of the character c (0 when absent).
RECURSIVE IndexFrom(_, _, _)
IndexFrom(s, c, i) == IF i > Len(s) THEN 0 ELSE IF s[i] = c THEN i ELSE IndexFrom(s, c, i + 1)

RECURSIVE IndexBefore(_, _, _)
IndexBefore(s, c, i) == IF i < 1 THEN 0 ELSE IF s[i] = c THEN i ELSE IndexBefore(s, c, i - 1)

FirstIndex(s, c) == IndexFrom(s, c, 1)

LastIndex(s, c) == IndexBefore(s, c, Len(s))

\* s.rstrip(c)
RECURSIVE RStrip(_, _)
RStrip(s, c) == IF s # <<>> /\ s[Len(s)] = c THEN RStrip(SubSeq(s, 1, Len(s) - 1), c) ELSE s

\* s.ljust(n, c)
RECURSIVE LJust(_, _, _)
LJust(s, n, c) == IF Len(s) >= n THEN s ELSE LJust(Append(s, c), n, c)

\* s.replace(c, r) for a one-character c and a string r
RECURSIVE ReplaceChar(_, _, _)
ReplaceChar(s, c, r) == IF s = <<>> THEN <<>> ELSE (IF s[1] = c THEN r ELSE <<s[1]>>) \o ReplaceChar(Tail(s), c, r)

\* The value of a string of decimal digits.
RECURSIVE DecValUpTo(_, _)
DecValUpTo(s, n) == IF n = 0 THEN 0 ELSE DecValUpTo(s, n - 1) * 10 + DigitVal(s[n])

DecVal(s) == DecValUpTo(s, Len(s))

\* The length of the run of digits of s that starts at index i.
RECURSIVE DigitRun(_, _)
DigitRun(s, i) == IF i <= Len(s) /\ IsDigit(s[i]) THEN 1 + DigitRun(s, i + 1) ELSE 0

\* n as exactly w decimal digits (n < 10^w), zero padded.
RECURSIVE ZeroPad(_, _)
ZeroPad(n, w) == IF w = 0 THEN <<>> ELSE Append(ZeroPad(n \div 10, w - 1), DigitChars[(n % 10) + 1])

\* n in decimal without padding.
RECURSIVE Decimal(_)
Decimal(n) == IF n < 10 THEN <<DigitChars[n + 1]>> ELSE Append(Decimal(n \div 10), DigitChars[(n % 10) + 1])

(* ----------------------------- JSON values ---------------------------- *)

\* t: "absent" (the key is missing), "null", "bool", "int", "str", "list"
\* (some non-empty array: truthy, not a string, not hashable), "array" (an
\* array with its items in s) and "object" (a dict, its <<key, value>> pairs
\* in s, in insertion order).
JAbsent == [t |-> "absent", n |-> 0, s |-> <<>>]

JNull == [t |-> "null", n |-> 0, s |-> <<>>]

JBool(b) == [t |-> "bool", n |-> IF b THEN 1 ELSE 0, s |-> <<>>]

JInt(v) == [t |-> "int", n |-> v, s |-> <<>>]

JStr(chars) == [t |-> "str", n |-> 0, s |-> chars]

JList == [t |-> "list", n |-> 0, s |-> <<>>]

JArr(items) == [t |-> "array", n |-> 0, s |-> items]

JObj(pairs) == [t |-> "object", n |-> 0, s |-> pairs]

\* Python truth value of what dict.get(key) returns (None for a missing key).
Truthy(v) ==
  CASE v.t = "int" -> v.n # 0
    [] v.t = "bool" -> v.n = 1
    [] v.t = "str" -> v.s # <<>>
    [] v.t = "list" -> TRUE
    [] v.t = "array" -> v.s # <<>>
    [] v.t = "object" -> v.s # <<>>
    [] OTHER -> FALSE

\* d[key] = value on the pairs of a dict
SetItem(pairs, key, value) ==
  IF \E i \in 1..Len(pairs) : pairs[i][1] = key
  THEN [i \in 1..Len(pairs) |-> IF pairs[i][1] = key THEN <<key, value>> ELSE pairs[i]]
  ELSE Append(pairs, <<key, value>>)

\* d.get(key, default) for a dict d
Get(d, key, default) ==
  IF \E i \in 1..Len(d.s) : d.s[i][1] = key
  THEN d.s[CHOOSE i \in 1..Len(d.s) : d.s[i][1] = key][2]
  ELSE default

(* ------------------------ json.loads, json.dumps ---------------------- *)

\* The lines of the model are written with the characters of one-character
\* strings; the whitespace among them is " ", "\t", "\n" and "\r", which is
\* both JSON's whitespace and what str.strip() removes.  Numbers are
\* integers, and the escapes are \" \\ \/ \n \t \r.
IsSpace(c) == c \in {" ", "\t", "\n", "\r"}

\* s[i], "" past the end
At(s, i) == IF i >= 1 /\ i <= Len(s) THEN s[i] ELSE ""

RECURSIVE SkipWs(_, _)
SkipWs(s, i) == IF i <= Len(s) /\ IsSpace(s[i]) THEN SkipWs(s, i + 1) ELSE i

\* The JSONDecodeError
Undecodable == [ok |-> FALSE, v |-> JNull, i |-> 0]

Decoded(v, i) == [ok |-> TRUE, v |-> v, i |-> i]

Unescape(c) ==
  CASE c = "n" -> "\n"
    [] c = "t" -> "\t"
    [] c = "r" -> "\r"
    [] OTHER -> c

\* The string whose opening quote has been read, from index j on
RECURSIVE ScanString(_, _, _)
ScanString(s, j, acc) ==
  IF j > Len(s) THEN Undecodable
  ELSE IF s[j] = "\"" THEN Decoded(JStr(acc), j + 1)
  ELSE IF s[j] = "\\"
       THEN IF At(s, j + 1) \in {"\"", "\\", "/", "n", "t", "r"}
            THEN ScanString(s, j + 2, Append(acc, Unescape(s[j + 1])))
            ELSE Undecodable
  ELSE IF s[j] \in {"\n", "\t", "\r"} THEN Undecodable
  ELSE ScanString(s, j + 1, Append(acc, s[j]))

\* -?(0|[1-9][0-9]*) at index i
ScanNumber(s, i) ==
  LET d == IF At(s, i) = "-" THEN i + 1 ELSE i
      len == IF At(s, d) = "0" THEN 1 ELSE DigitRun(s, d)
      n == DecVal(SubSeq(s, d, d + len - 1))
  IN IF len = 0 THEN Undecodable
     ELSE Decoded(JInt(IF d = i THEN n ELSE 0 - n), d + len)

\* Whether the characters lit stand at index i of s
LiteralAt(s, i, lit) == i + Len(lit) - 1 <= Len(s) /\ SubSeq(s, i, i + Len(lit) - 1) = lit

RECURSIVE ParseValue(_, _)
RECURSIVE ParseMembers(_, _, _)
RECURSIVE ParseItems(_, _, _)

\* The members of an object from index j on, where a key must start
ParseMembers(s, j, acc) ==
  IF At(s, j) # "\"" THEN Undecodable
  ELSE LET k == ScanString(s, j + 1, <<>>)
           c == SkipWs(s, k.i)
           v == ParseValue(s, SkipWs(s, c + 1))
           e == SkipWs(s, v.i)
           pairs == SetItem(acc, k.v.s, v.v)
       IN IF ~k.ok \/ At(s, c) # ":" THEN Undecodable
          ELSE IF ~v.ok THEN Undecodable
          ELSE IF At(s, e) = "}" THEN Decoded(JObj(pairs), e + 1)
          ELSE IF At(s, e) = "," THEN ParseMembers(s, SkipWs(s, e + 1), pairs)
          ELSE Undecodable

\* The items of an array from index j on, where a value must start
ParseItems(s, j, acc) ==
  LET v == ParseValue(s, j)
      e == SkipWs(s, v.i)
  IN IF ~v.ok THEN Undecodable
     ELSE IF At(s, e) = "]" THEN Decoded(JArr(Append(acc, v.v)), e + 1)
     ELSE IF At(s, e) = "," THEN ParseItems(s, SkipWs(s, e + 1), Append(acc, v.v))
     ELSE Undecodable

ParseValue(s, i) ==
  LET c == At(s, i)
      j == SkipWs(s, i + 1)
  IN IF c = "\"" THEN ScanString(s, i + 1, <<>>)
     ELSE IF c = "{" THEN (IF At(s, j) = "}" THEN Decoded(JObj(<<>>), j + 1) ELSE ParseMembers(s, j, <<>>))
     ELSE IF c = "[" THEN (IF At(s, j) = "]" THEN Decoded(JArr(<<>>), j + 1) ELSE ParseItems(s, j, <<>>))
     ELSE IF LiteralAt(s, i, <<"n", "u", "l", "l">>) THEN Decoded(JNull, i + 4)
     ELSE IF LiteralAt(s, i, <<"t", "r", "u", "e">>) THEN Decoded(JBool(TRUE), i + 4)
     ELSE IF LiteralAt(s, i, <<"f", "a", "l", "s", "e">>) THEN Decoded(JBool(FALSE), i + 5)
     ELSE IF c = "-" \/ IsDigit(c) THEN ScanNumber(s, i)
     ELSE Undecodable

\* json.loads(s): ok = FALSE stands for the JSONDecodeError
json_loads(s) ==
  LET r == ParseValue(s, SkipWs(s, 1))
  IN IF r.ok /\ SkipWs(s, r.i) = Len(s) + 1 THEN [ok |-> TRUE, v |-> r.v] ELSE [ok |-> FALSE, v |-> JNull]

EscapeChar(c) ==
  CASE c = "\"" -> <<"\\", "\"">>
    [] c = "\\" -> <<"\\", "\\">>
    [] c = "\n" -> <<"\\", "n">>
    [] c = "\t" -> <<"\\", "t">>
    [] c = "\r" -> <<"\\", "r">>
    [] OTHER -> <<c>>

RECURSIVE Escaped(_)
Escaped(s) == IF s = <<>> THEN <<>> ELSE EscapeChar(s[1]) \o Escaped(Tail(s))

Quoted(s) == <<"\"">> \o Escaped(s) \o <<"\"">>

\* n in decimal, with its sign
SignedDecimal(n) == IF n < 0 THEN <<"-">> \o Decimal(0 - n) ELSE Decimal(n)

\* json.dumps(v, separators = (itemSep, keySep))
RECURSIVE Dumps(_, _, _)
RECURSIVE DumpsJoin(_, _, _, _)
DumpsJoin(items, isObject, itemSep, keySep) ==
  IF items = <<>> THEN <<>>
  ELSE (IF isObject
        THEN Quoted(items[1][1]) \o keySep \o Dumps(items[1][2], itemSep, keySep)
        ELSE Dumps(items[1], itemSep, keySep))
       \o (IF Len(items) > 1 THEN itemSep ELSE <<>>)
       \o DumpsJoin(Tail(items), isObject, itemSep, keySep)

Dumps(v, itemSep, keySep) ==
  CASE v.t = "str" -> Quoted(v.s)
    [] v.t = "int" -> SignedDecimal(v.n)
    [] v.t = "bool" -> (IF v.n = 1 THEN <<"t", "r", "u", "e">> ELSE <<"f", "a", "l", "s", "e">>)
    [] v.t = "array" -> <<"[">> \o DumpsJoin(v.s, FALSE, itemSep, keySep) \o <<"]">>
    [] v.t = "object" -> <<"{">> \o DumpsJoin(v.s, TRUE, itemSep, keySep) \o <<"}">>
    [] OTHER -> <<"n", "u", "l", "l">>

\* json.dumps(v)
json_dumps(v) == Dumps(v, <<",", " ">>, <<":", " ">>)

(* --------------------------- parse_timestamp -------------------------- *)

unknown == <<"u", "n", "k", "n", "o", "w", "n">>

IsLeap(y) == (y % 4 = 0 /\ y % 100 # 0) \/ y % 400 = 0

DaysInMonth(y, m) ==
  IF m = 2 THEN (IF IsLeap(y) THEN 29 ELSE 28)
  ELSE IF m \in {4, 6, 9, 11} THEN 30 ELSE 31

\* One directive of a strptime format: the digit run at index i of s must be
\* one the directive's regular expression accepts in full (every directive
\* of the formats used here is followed by a literal that is no digit).
DirectiveOk(d, len, v) ==
  CASE d = "Y" -> len = 4
    [] d = "m" -> (len = 2 /\ v >= 1 /\ v <= 12) \/ (len = 1 /\ v >= 1)
    [] d = "d" -> (len = 2 /\ v >= 1 /\ v <= 31) \/ (len = 1 /\ v >= 1)
    [] d = "H" -> (len = 2 /\ v <= 23) \/ len = 1
    [] d = "M" -> (len = 2 /\ v <= 59) \/ len = 1
    [] d = "S" -> (len = 2 /\ v <= 61) \/ len = 1
    [] d = "f" -> len >= 1 /\ len <= 6
    [] OTHER -> FALSE

\* aware: the datetime has a UTC offset, off minutes east of UTC
NoFields == [Y |-> 0, m |-> 0, d |-> 0, H |-> 0, M |-> 0, S |-> 0, f |-> 0, aware |-> FALSE, off |-> 0]

\* Match s from index i against the format items fmt[j..]: an item is a
\* directive letter of DirectiveOk or a literal character.  The whole of s
\* must be consumed ("unconverted data remains" otherwise).
RECURSIVE MatchFormat(_, _, _, _, _)
MatchFormat(s, i, fmt, j, acc) ==
  IF j > Len(fmt) THEN [ok |-> i = Len(s) + 1, v |-> acc]
  ELSE IF fmt[j] \in {"Y", "m", "d", "H", "M", "S", "f"}
  THEN LET len == DigitRun(s, i)
           v == DecVal(SubSeq(s, i, i + len - 1))
       IN IF len > 0 /\ DirectiveOk(fmt[j], len, v)
          THEN MatchFormat(s, i + len, fmt, j + 1, [acc EXCEPT ![fmt[j]] = v])
          ELSE [ok |-> FALSE, v |-> NoFields]
  ELSE IF i <= Len(s) /\ s[i] = fmt[j]
       THEN MatchFormat(s, i + 1, fmt, j + 1, acc)
       ELSE [ok |-> FALSE, v |-> NoFields]

\* The datetime constructor's own range checks.
ValidDateTime(v) ==
  /\ v.Y >= 1 /\ v.Y <= 9999
  /\ v.m >= 1 /\ v.m <= 12
  /\ v.d >= 1 /\ v.d <= DaysInMonth(v.Y, v.m)
  /\ v.H <= 23 /\ v.M <= 59 /\ v.S <= 59

\* "%Y-%m-%dT%H:%M:%S.%fZ"
FmtFracZ == <<"Y", "-", "m", "-", "d", "T", "H", ":", "M", ":", "S", ".", "f", "Z">>

\* "%Y-%m-%dT%H:%M:%SZ"
FmtZ == <<"Y", "-", "m", "-", "d", "T", "H", ":", "M", ":", "S", "Z">>

\* datetime.strptime(s, fmt): ok = FALSE stands for the ValueError.
strptime(s, fmt) ==
  LET r == MatchFormat(s, 1, fmt, 1, NoFields)
  IN [ok |-> r.ok /\ ValidDateTime(r.v), v |-> r.v]

\* Whether s[i..] is exactly len digits long at i.
DigitsAt(s, i, len) == i + len - 1 <= Len(s) /\ \A k \in i..(i + len - 1) : IsDigit(s[k])

\* datetime.fromisoformat(s), for the shapes every Python 3 version with
\* fromisoformat reads alike: YYYY-MM-DD, optionally followed by
\* THH:MM:SS, a fraction of 3 or 6 digits, and an offset +HH:MM or -HH:MM.
\* Anything else is the ValueError (ok = FALSE).
fromisoformat(s) ==
  LET dateOk == Len(s) >= 10 /\ DigitsAt(s, 1, 4) /\ s[5] = "-" /\ DigitsAt(s, 6, 2)
                  /\ s[8] = "-" /\ DigitsAt(s, 9, 2)
      timeOk == Len(s) >= 19 /\ s[11] = "T" /\ DigitsAt(s, 12, 2) /\ s[14] = ":"
                  /\ DigitsAt(s, 15, 2) /\ s[17] = ":" /\ DigitsAt(s, 18, 2)
      fracLen == IF Len(s) >= 20 /\ s[20] = "." THEN DigitRun(s, 21) ELSE 0
      fracOk == IF Len(s) >= 20 /\ s[20] = "." THEN fracLen \in {3, 6} ELSE TRUE
      rest == IF Len(s) >= 20 /\ s[20] = "." THEN 21 + fracLen ELSE 20
      offOk == \/ Len(s) = rest - 1
               \/ /\ Len(s) = rest + 5
                  /\ s[rest] \in {"+", "-"}
                  /\ DigitsAt(s, rest + 1, 2) /\ s[rest + 3] = ":" /\ DigitsAt(s, rest + 4, 2)
                  /\ DecVal(SubSeq(s, rest + 1, rest + 2)) <= 23
                  /\ DecVal(SubSeq(s, rest + 4, rest + 5)) <= 59
      v == IF dateOk
           THEN [Y |-> DecVal(SubSeq(s, 1, 4)), m |-> DecVal(SubSeq(s, 6, 7)),
                 d |-> DecVal(SubSeq(s, 9, 10)),
                 H |-> IF timeOk THEN DecVal(SubSeq(s, 12, 13)) ELSE 0,
                 M |-> IF timeOk THEN DecVal(SubSeq(s, 15, 16)) ELSE 0,
                 S |-> IF timeOk THEN DecVal(SubSeq(s, 18, 19)) ELSE 0, f |-> 0,
                 aware |-> timeOk /\ Len(s) = rest + 5,
                 off |-> IF timeOk /\ Len(s) = rest + 5
                         THEN (IF s[rest] = "-" THEN -1 ELSE 1)
                                * (DecVal(SubSeq(s, rest + 1, rest + 2)) * 60 + DecVal(SubSeq(s, rest + 4, rest + 5)))
                         ELSE 0]
           ELSE NoFields
  IN [ok |-> dateOk /\ (Len(s) = 10 \/ (timeOk /\ fracOk /\ offOk)) /\ ValidDateTime(v), v |-> v]

\* dt.strftime("%Y-%m-%d").  The C library formats %Y: glibc prints the year
\* without padding ("999"), the BSD and Windows libraries pad it to four
\* digits ("0999"); pads says which library the interpreter runs on.
strftime(v, pads) ==
  (IF pads THEN ZeroPad(v.Y, 4) ELSE Decimal(v.Y)) \o <<"-">> \o ZeroPad(v.m, 2) \o <<"-">> \o ZeroPad(v.d, 2)

\* parse_timestamp of claude_tokens_daily.py
parse_timestamp(ts, pads) ==
  IF ~Truthy(ts) THEN unknown
  ELSE IF ts.t # "str" THEN unknown   \* AttributeError, caught by "except Exception"
  ELSE LET ts_str == ts.s
           dot == LastIndex(ts_str, ".")
           base == SubSeq(ts_str, 1, dot - 1)
           rest == Drop(ts_str, dot + 1)
           ms == LJust(Take(RStrip(rest, "Z"), 3), 3, "0")
           dt == IF EndsWith(ts_str, <<"Z">>)
                 THEN IF Contains(ts_str, ".")
                      THEN strptime(base \o <<".">> \o ms \o <<"Z">>, FmtFracZ)
                      ELSE strptime(ts_str, FmtZ)
                 ELSE fromisoformat(ReplaceChar(ts_str, "Z", <<"+", "0", "0", ":", "0", "0">>))
       IN IF dt.ok THEN strftime(dt.v, pads) ELSE unknown

\* parse_timestamp of qwen_tokens_daily.py
parse_timestamp_qwen(ts, pads) ==
  IF ~Truthy(ts) THEN unknown
  ELSE IF ts.t # "str" THEN unknown
  ELSE LET ts_str == ts.s
           dot == LastIndex(ts_str, ".")
           base == SubSeq(ts_str, 1, dot - 1)
           rest == Drop(ts_str, dot + 1)
           ms == LJust(Take(RStrip(rest, "Z"), 3), 3, "0")
           dt == IF EndsWith(ts_str, <<"Z">>)
                 THEN IF Contains(ts_str, ".")
                      THEN strptime(base \o <<".">> \o ms \o <<"Z">>, FmtFracZ)
                      ELSE strptime(ts_str, FmtZ)
                 ELSE fromisoformat(ReplaceChar(ts_str, "Z", <<"+", "0", "0", ":", "0", "0">>))
       IN IF dt.ok THEN strftime(dt.v, pads) ELSE unknown

(* ------------------------ format_log.py: strings ---------------------- *)

\* s.lstrip(), s.rstrip(), s.strip()
RECURSIVE LStripWs(_)
LStripWs(s) == IF s # <<>> /\ IsSpace(s[1]) THEN LStripWs(Tail(s)) ELSE s

RECURSIVE RStripWs(_)
RStripWs(s) == IF s # <<>> /\ IsSpace(s[Len(s)]) THEN RStripWs(SubSeq(s, 1, Len(s) - 1)) ELSE s

Strip(s) == LStripWs(RStripWs(s))

\* s.replace(a + b, r) for the two characters a, b and a string r
RECURSIVE Replace2(_, _, _, _)
Replace2(s, a, b, r) ==
  IF s = <<>> THEN <<>>
  ELSE IF Len(s) >= 2 /\ s[1] = a /\ s[2] = b THEN r \o Replace2(Drop(s, 3), a, b, r)
  ELSE <<s[1]>> \o Replace2(Tail(s), a, b, r)

\* s.split(c)[0]
SplitFirst(s, c) == IF Contains(s, c) THEN SubSeq(s, 1, FirstIndex(s, c) - 1) ELSE s

\* The length of the run of characters other than c that starts at index i
RECURSIVE RunWithout(_, _, _)
RunWithout(s, i, c) == IF i <= Len(s) /\ s[i] # c THEN 1 + RunWithout(s, i + 1, c) ELSE 0

\* repr(s) of a string
PyReprStr(s) ==
  LET q == IF Contains(s, "'") /\ ~Contains(s, "\"") THEN "\"" ELSE "'"
      Esc(c) == CASE c = "\\" -> <<"\\", "\\">>
                  [] c = "\n" -> <<"\\", "n">>
                  [] c = "\t" -> <<"\\", "t">>
                  [] c = "\r" -> <<"\\", "r">>
                  [] c = q -> <<"\\", q>>
                  [] OTHER -> <<c>>
      F[i \in 0..Len(s)] == IF i = 0 THEN <<>> ELSE F[i - 1] \o Esc(s[i])
  IN <<q>> \o F[Len(s)] \o <<q>>

\* repr(v) of a decoded JSON value
RECURSIVE PyRepr(_)
RECURSIVE PyReprJoin(_, _)
PyReprJoin(items, isDict) ==
  IF items = <<>> THEN <<>>
  ELSE (IF isDict THEN PyReprStr(items[1][1]) \o <<":", " ">> \o PyRepr(items[1][2]) ELSE PyRepr(items[1]))
       \o (IF Len(items) > 1 THEN <<",", " ">> ELSE <<>>)
       \o PyReprJoin(Tail(items), isDict)

PyRepr(v) ==
  CASE v.t = "str" -> PyReprStr(v.s)
    [] v.t = "int" -> SignedDecimal(v.n)
    [] v.t = "bool" -> (IF v.n = 1 THEN <<"T", "r", "u", "e">> ELSE <<"F", "a", "l", "s", "e">>)
    [] v.t = "array" -> <<"[">> \o PyReprJoin(v.s, FALSE) \o <<"]">>
    [] v.t = "object" -> <<"{">> \o PyReprJoin(v.s, TRUE) \o <<"}">>
    [] OTHER -> <<"N", "o", "n", "e">>

\* str(v), what an f-string puts for v
PyStr(v) == IF v.t = "str" THEN v.s ELSE PyRepr(v)

(* --------------------------- convert_to_gmt8 -------------------------- *)

\* The day after / before the date of v
NextDay(v) ==
  IF v.d < DaysInMonth(v.Y, v.m) THEN [v EXCEPT !.d = v.d + 1]
  ELSE IF v.m < 12 THEN [v EXCEPT !.d = 1, !.m = v.m + 1]
  ELSE [v EXCEPT !.d = 1, !.m = 1, !.Y = v.Y + 1]

PrevDay(v) ==
  IF v.d > 1 THEN [v EXCEPT !.d = v.d - 1]
  ELSE IF v.m > 1 THEN [v EXCEPT !.d = DaysInMonth(v.Y, v.m - 1), !.m = v.m - 1]
  ELSE [v EXCEPT !.d = 31, !.m = 12, !.Y = v.Y - 1]

RECURSIVE AddDays(_, _)
AddDays(v, k) ==
  IF k = 0 THEN v
  ELSE IF k > 0 THEN AddDays(NextDay(v), k - 1)
  ELSE AddDays(PrevDay(v), k + 1)

\* dt.astimezone(timezone(timedelta(minutes = target))); a datetime without
\* an offset is taken as local time, local minutes east of UTC.  ok = FALSE
\* stands for the OverflowError past the years 1..9999.
astimezone(v, target, local) ==
  LET minutes == v.H * 60 + v.M + target - (IF v.aware THEN v.off ELSE local)
      day == AddDays(v, minutes \div 1440)
      r == [day EXCEPT !.H = (minutes % 1440) \div 60, !.M = minutes % 60, !.aware = TRUE, !.off = target]
  IN [ok |-> r.Y >= 1 /\ r.Y <= 9999, v |-> r]

\* dt.strftime("%Y-%m-%d %H:%M:%S")
strftime_seconds(v, pads) ==
  strftime(v, pads) \o <<" ">> \o ZeroPad(v.H, 2) \o <<":">> \o ZeroPad(v.M, 2) \o <<":">> \o ZeroPad(v.S, 2)

\* convert_to_gmt8: the value that is put between the brackets.  A value
\* that is no string has no replace (AttributeError), a string that is no
\* timestamp gives ValueError: both are caught and the argument is returned.
convert_to_gmt8(timestamp_str, pads, local) ==
  IF timestamp_str.t # "str" THEN timestamp_str
  ELSE LET dt == fromisoformat(ReplaceChar(timestamp_str.s, "Z", <<"+", "0", "0", ":", "0", "0">>))
           gmt8 == astimezone(dt.v, 480, local)
       IN IF dt.ok /\ gmt8.ok THEN JStr(strftime_seconds(gmt8.v, pads)) ELSE timestamp_str

(* ---------------------------- parse_log_line -------------------------- *)

\* What parse_log_line gives: kind "entry" with the dict's values, "none"
\* for None, "fault" for an exception that leaves the function.
NoEntry(kind) ==
  [kind |-> kind, time |-> JNull, level |-> JNull, module |-> JNull, message |-> <<>>, meta |-> JNull]

INFO == <<"I", "N", "F", "O">>

\* re.search(r'"subsystem"\s*:\s*"([^"]+)"', s): ok and group(1)
SubsystemSearch(s) ==
  LET key == <<"\"", "s", "u", "b", "s", "y", "s", "t", "e", "m", "\"">>
      Colon(i) == SkipWs(s, i + Len(key))
      Open(i) == SkipWs(s, Colon(i) + 1)
      Run(i) == RunWithout(s, Open(i) + 1, "\"")
      Matches(i) == /\ LiteralAt(s, i, key)
                    /\ At(s, Colon(i)) = ":"
                    /\ At(s, Open(i)) = "\""
                    /\ Run(i) >= 1
                    /\ At(s, Open(i) + 1 + Run(i)) = "\""
      starts == {i \in 1..Len(s) : Matches(i)}
      first == CHOOSE i \in starts : \A j \in starts : i <= j
  IN IF starts = {} THEN [ok |-> FALSE, group |-> <<>>]
     ELSE [ok |-> TRUE, group |-> SubSeq(s, Open(first) + 1, Open(first) + Run(first))]

http == <<"h", "t", "t", "p">>

\* The test of line 143 with <= where the code has <
ShortFirstPart_le30(first_part) == ~Contains(first_part, " ") /\ Len(first_part) <= 30

\* Line 143: the first part is that of a subsystem path
ShortFirstPart(first_part) == ~Contains(first_part, " ") /\ Len(first_part) < 30

\* Lines 118-148: the subsystem and the message a string field "0" gives;
\* fault is the AttributeError of sub_data.get on a decoded value that is
\* no object.
Msg0(msg_0) ==
  LET sub_data == json_loads(msg_0)
      m == SubsystemSearch(msg_0)
      inner == SubSeq(msg_0, 2, Len(msg_0) - 1)
      first_part == SplitFirst(msg_0, "/")
      R(subsystem, message) == [fault |-> FALSE, subsystem |-> subsystem, message |-> message]
  IN IF sub_data.ok
     THEN IF sub_data.v.t = "object"
          THEN R(Get(sub_data.v, <<"s", "u", "b", "s", "y", "s", "t", "e", "m">>, JStr(<<>>)), <<>>)
          ELSE [fault |-> TRUE, subsystem |-> JStr(<<>>), message |-> <<>>]
     ELSE IF StartsWith(msg_0, <<"{">>)
          THEN R(JStr(IF m.ok THEN m.group ELSE <<>>), <<>>)
     ELSE IF StartsWith(msg_0, <<"\"">>) /\ EndsWith(msg_0, <<"\"">>)
          THEN IF Contains(inner, "/") /\ ~StartsWith(inner, http) /\ ~Contains(SplitFirst(inner, "/"), " ")
               THEN R(JStr(inner), <<>>)
               ELSE R(JStr(<<>>), inner)
     ELSE IF Contains(msg_0, "/") /\ ~StartsWith(msg_0, http)
          THEN IF ShortFirstPart(first_part)
               THEN R(JStr(msg_0), <<>>)
               ELSE R(JStr(<<>>), msg_0)
     ELSE R(JStr(<<>>), msg_0)

\* Lines 151-155: the module of a subsystem.  ("/" in subsystem) raises
\* TypeError for a number, and subsystem.split raises AttributeError for a
\* list or a dict that holds "/".
ModuleOf(subsystem) ==
  LET slash == <<"/">>
      R(module) == [fault |-> FALSE, module |-> module]
      F == [fault |-> TRUE, module |-> JStr(<<>>)]
  IN IF ~Truthy(subsystem) THEN R(JStr(<<>>))
     ELSE CASE subsystem.t = "str" ->
                 R(IF Contains(subsystem.s, "/") THEN JStr(SplitFirst(subsystem.s, "/")) ELSE subsystem)
            [] subsystem.t = "array" ->
                 IF \E i \in 1..Len(subsystem.s) : subsystem.s[i].t = "str" /\ subsystem.s[i].s = slash
                 THEN F ELSE R(subsystem)
            [] subsystem.t = "object" ->
                 IF \E i \in 1..Len(subsystem.s) : subsystem.s[i][1] = slash THEN F ELSE R(subsystem)
            [] OTHER -> F

\* message.replace("\\n", " ").replace("\n", " ")
CleanNewlines(message) == ReplaceChar(Replace2(message, "\\", "n", <<" ">>), "\n", <<" ">>)

parse_log_line(raw) ==
  LET line == Strip(raw)
      decoded == json_loads(line)
      data == decoded.v
      timestamp == Get(data, <<"t", "i", "m", "e">>, JStr(<<>>))
      meta == Get(data, <<"_", "m", "e", "t", "a">>, JObj(<<>>))
      level == Get(meta, <<"l", "o", "g", "L", "e", "v", "e", "l", "N", "a", "m", "e">>, JStr(INFO))
      msg_0 == Get(data, <<"0">>, JStr(<<>>))
      msg_1 == Get(data, <<"1">>, JStr(<<>>))
      fromMsg0 == IF msg_0.t = "str" THEN Msg0(msg_0.s)
                  ELSE [fault |-> FALSE, subsystem |-> JStr(<<>>), message |-> <<>>]
      mod == IF msg_0.t = "str" THEN ModuleOf(fromMsg0.subsystem) ELSE [fault |-> FALSE, module |-> JStr(<<>>)]
      message == IF Truthy(msg_1)
                 THEN CleanNewlines(IF msg_1.t = "str" THEN msg_1.s ELSE json_dumps(msg_1))
                 ELSE fromMsg0.message
  IN IF line = <<>> THEN NoEntry("none")
     ELSE IF ~decoded.ok THEN NoEntry("none")
     ELSE IF data.t # "object" THEN NoEntry("fault")
     ELSE IF meta.t # "object" THEN NoEntry("fault")
     ELSE IF fromMsg0.fault THEN NoEntry("fault")
     ELSE IF mod.fault THEN NoEntry("fault")
     ELSE [kind |-> "entry", time |-> timestamp, level |-> level, module |-> mod.module,
           message |-> message, meta |-> meta]

(* --------------------------- format_log_entry ------------------------- *)

\* A list or a dict cannot be a dict key or be looked up in one (TypeError)
Hashable(v) == v.t \notin {"array", "object", "list"}

\* format_log_entry(entry, False), the colour sequences left out.  colors
\* is the set of keys of _MODULE_COLORS; fault is the TypeError of looking
\* up an unhashable level or module.
format_log_entry(entry, colors, pads, local) ==
  LET sep == <<" ", "|", " ">>
      formatted_time == PyStr(convert_to_gmt8(entry.time, pads, local))
      withModule == Truthy(entry.module) /\ Len(entry.module.s) < 50
  IN IF ~Hashable(entry.level) THEN [fault |-> TRUE, text |-> <<>>, colors |-> colors]
     ELSE IF withModule /\ ~Hashable(entry.module) THEN [fault |-> TRUE, text |-> <<>>, colors |-> colors]
     ELSE [fault |-> FALSE,
           text |-> <<"[">> \o formatted_time \o <<"]">> \o sep
                    \o (IF withModule THEN <<"[">> \o entry.module.s \o <<"]">> \o sep ELSE <<>>)
                    \o PyStr(entry.level) \o sep \o entry.message,
           colors |-> IF withModule THEN colors \cup {entry.module.s} ELSE colors]

(* ---------------------------- format_tokens --------------------------- *)

\* The largest e with divisor * 2^e <= v (v >= divisor >= 1).
RECURSIVE Log2Floor(_, _)
Log2Floor(v, divisor) == IF v \div divisor < 2 THEN 0 ELSE 1 + Log2Floor(v \div 2, divisor)

\* (r * 2^k) % divisor, by k doublings
RECURSIVE DoubleMod(_, _, _)
DoubleMod(r, k, divisor) == IF k = 0 THEN r % divisor ELSE DoubleMod((2 * r) % divisor, k - 1, divisor)

\* round(x * 100) for the double x = v / divisor, as format(x, ".2f")
\* rounds it: x is the double nearest to the quotient (53-bit significand),
\* and the decimal conversion rounds x's exact value half to even.  Off a
\* tie of the exact quotient the error of x is too small to matter; on a
\* tie the direction in which the division was rounded decides.
Hundredths(v, divisor) ==
  LET unit == divisor \div 100
      n == v \div unit
      rem == v % unit
      k == 52 - Log2Floor(v, divisor)
      r == DoubleMod(v % divisor, k, divisor)
  IN IF 2 * rem < unit THEN n
     ELSE IF 2 * rem > unit THEN n + 1
     ELSE IF r = 0 THEN (IF n % 2 = 0 THEN n ELSE n + 1)
     ELSE IF 2 * r < divisor THEN n
     ELSE n + 1

\* f"{x:.2f}" from the hundredths
Fixed2(q) == Decimal(q \div 100) \o <<".">> \o ZeroPad(q % 100, 2)

\* f"{n:,}" for n >= 0
RECURSIVE Grouped(_)
Grouped(n) == IF n < 1000 THEN Decimal(n) ELSE Grouped(n \div 1000) \o <<",">> \o ZeroPad(n % 1000, 3)

\* format_tokens with the kilo threshold compared with > where the code has >=
format_tokens_strict(v) ==
  IF v >= 1000000 THEN Fixed2(Hundredths(v, 1000000)) \o <<"M">>
  ELSE IF v > 1000 THEN Fixed2(Hundredths(v, 1000)) \o <<"K">>
  ELSE IF v < 0 THEN <<"-">> \o Grouped(0 - v)
  ELSE Grouped(v)

\* format_tokens of claude_tokens_daily.py
format_tokens(v) ==
  IF v >= 1000000 THEN Fixed2(Hundredths(v, 1000000)) \o <<"M">>
  ELSE IF v >= 1000 THEN Fixed2(Hundredths(v, 1000)) \o <<"K">>
  ELSE IF v < 0 THEN <<"-">> \o Grouped(0 - v)
  ELSE Grouped(v)

\* format_tokens of qwen_tokens_daily.py
format_tokens_qwen(v) ==
  IF v >= 1000000 THEN Fixed2(Hundredths(v, 1000000)) \o <<"M">>
  ELSE IF v >= 1000 THEN Fixed2(Hundredths(v, 1000)) \o <<"K">>
  ELSE IF v < 0 THEN <<"-">> \o Grouped(0 - v)
  ELSE Grouped(v)

(* ------------------------- aggregator: log lines ---------------------- *)

assistant == <<"a", "s", "s", "i", "s", "t", "a", "n", "t">>

user == <<"u", "s", "e", "r">>

\* "YYYY-MM-DDTHH:MM:SS[.frac]Z" from its numbers and the digits of the fraction
MkTimestamp(Y, m, d, H, M, S, frac) ==
  ZeroPad(Y, 4) \o <<"-">> \o ZeroPad(m, 2) \o <<"-">> \o ZeroPad(d, 2) \o <<"T">>
    \o ZeroPad(H, 2) \o <<":">> \o ZeroPad(M, 2) \o <<":">> \o ZeroPad(S, 2)
    \o (IF frac = <<>> THEN <<>> ELSE <<".">> \o frac) \o <<"Z">>

TsA == JStr(MkTimestamp(2026, 1, 1, 10, 0, 0, <<"1", "2", "3">>))

TsB == JStr(MkTimestamp(2026, 1, 1, 23, 0, 0, <<>>))

TsC == JStr(MkTimestamp(2026, 1, 2, 8, 30, 0, <<"5">>))

TsBad == JStr(<<"x">>)

ModelM1 == JStr(<<"m", "1">>)

ModelM2 == JStr(<<"m", "2">>)

\* The "usage" object of a Claude entry: t is "absent" (no such key), "null"
\* (a value that is no object) or "dict"; d holds the four counters read.
ClaudeUsage(i, o, cr, cc) ==
  [t |-> "dict", d |-> [input_tokens |-> i, output_tokens |-> o,
                        cache_read_input_tokens |-> cr, cache_creation_input_tokens |-> cc]]

NoClaudeUsage == [ClaudeUsage(JAbsent, JAbsent, JAbsent, JAbsent) EXCEPT !.t = "absent"]

NullClaudeUsage == [ClaudeUsage(JAbsent, JAbsent, JAbsent, JAbsent) EXCEPT !.t = "null"]

\* The "message" of a Claude entry: absent, a string, or an object.
Message(model, usage) == [t |-> "dict", model |-> model, usage |-> usage]

NoMessage == [t |-> "absent", model |-> JAbsent, usage |-> NoClaudeUsage]

\* The "usageMetadata" object of a Qwen entry
QwenUsage(p, c, th, ca, tot) ==
  [t |-> "dict", d |-> [promptTokenCount |-> p, candidatesTokenCount |-> c, thoughtsTokenCount |-> th,
                        cachedContentTokenCount |-> ca, totalTokenCount |-> tot]]

NoQwenUsage == [QwenUsage(JAbsent, JAbsent, JAbsent, JAbsent, JAbsent) EXCEPT !.t = "absent"]

NullQwenUsage == [QwenUsage(JAbsent, JAbsent, JAbsent, JAbsent, JAbsent) EXCEPT !.t = "null"]

\* One line of a .jsonl file.  kind: "blank" (empty after strip), "badjson"
\* (json.loads raises JSONDecodeError), "nonobject" (a JSON value that is no
\* object), "deep" (arrays nested beyond the interpreter's recursion limit:
\* json.loads raises RecursionError), "object" (the fields below are those
\* the code reads).
Line(kind, timestamp, type, usage, message, model, usageMetadata) ==
  [kind |-> kind, timestamp |-> timestamp, type |-> type, usage |-> usage, message |-> message,
   model |-> model, usageMetadata |-> usageMetadata]

OtherLine(kind) == Line(kind, JAbsent, JAbsent, NoClaudeUsage, NoMessage, JAbsent, NoQwenUsage)

ClaudeEntry(timestamp, type, usage, message) ==
  Line("object", timestamp, type, usage, message, JAbsent, NoQwenUsage)

QwenEntry(timestamp, type, model, usageMetadata) ==
  Line("object", timestamp, type, NoClaudeUsage, NoMessage, model, usageMetadata)

\* The lines a Claude log is made of in this model.
ClaudeLines ==
  { OtherLine("blank"), OtherLine("badjson"), OtherLine("nonobject"), OtherLine("deep"),
    ClaudeEntry(JAbsent, JStr(user), ClaudeUsage(JInt(1), JAbsent, JAbsent, JAbsent), NoMessage),
    ClaudeEntry(JStr(<<>>), JStr(user), ClaudeUsage(JInt(1), JAbsent, JAbsent, JAbsent), NoMessage),
    ClaudeEntry(TsA, JAbsent, ClaudeUsage(JInt(600), JInt(50), JAbsent, JAbsent), NoMessage),
    ClaudeEntry(TsB, JStr(assistant), NoClaudeUsage,
                Message(ModelM1, ClaudeUsage(JInt(20), JAbsent, JInt(500), JAbsent))),
    ClaudeEntry(TsC, JStr(assistant), NoClaudeUsage,
                Message(ModelM2, ClaudeUsage(JAbsent, JInt(1), JAbsent, JInt(2)))),
    ClaudeEntry(TsBad, JAbsent, ClaudeUsage(JInt(5), JAbsent, JAbsent, JAbsent), NoMessage),
    ClaudeEntry(TsA, JAbsent, ClaudeUsage(JInt(0), JInt(0), JAbsent, JAbsent), NoMessage),
    ClaudeEntry(TsA, JAbsent, ClaudeUsage(JInt(3), JNull, JAbsent, JAbsent), NoMessage),
    ClaudeEntry(TsC, JAbsent, ClaudeUsage(JInt(-4), JInt(1), JAbsent, JAbsent), NoMessage),
    ClaudeEntry(TsA, JStr(assistant), NullClaudeUsage,
                Message(ModelM1, ClaudeUsage(JInt(7), JAbsent, JAbsent, JAbsent))),
    ClaudeEntry(TsC, JStr(user), NoClaudeUsage,
                Message(ModelM1, ClaudeUsage(JInt(7), JAbsent, JAbsent, JAbsent))),
    ClaudeEntry(TsA, JStr(assistant), NoClaudeUsage,
                Message(JList, ClaudeUsage(JInt(9), JAbsent, JAbsent, JAbsent))) }

\* The lines a Qwen log is made of in this model.
QwenLines ==
  { OtherLine("blank"), OtherLine("badjson"), OtherLine("nonobject"), OtherLine("deep"),
    QwenEntry(JAbsent, JStr(user), JAbsent, QwenUsage(JInt(1), JAbsent, JAbsent, JAbsent, JInt(1))),
    QwenEntry(JStr(<<>>), JStr(user), JAbsent, QwenUsage(JInt(1), JAbsent, JAbsent, JAbsent, JInt(1))),
    QwenEntry(TsA, JStr(assistant), ModelM1, QwenUsage(JInt(600), JInt(50), JAbsent, JAbsent, JInt(650))),
    QwenEntry(TsB, JStr(user), ModelM2, QwenUsage(JInt(20), JAbsent, JAbsent, JInt(7), JInt(500))),
    QwenEntry(TsC, JStr(assistant), ModelM2, QwenUsage(JAbsent, JInt(1), JInt(2), JAbsent, JInt(3))),
    QwenEntry(TsBad, JAbsent, JAbsent, QwenUsage(JInt(5), JAbsent, JAbsent, JAbsent, JInt(5))),
    QwenEntry(TsA, JAbsent, JAbsent, QwenUsage(JInt(5), JAbsent, JAbsent, JAbsent, JInt(0))),
    QwenEntry(TsA, JAbsent, JAbsent, QwenUsage(JInt(2), JNull, JInt(1), JAbsent, JInt(3))),
    QwenEntry(TsC, JAbsent, JAbsent, QwenUsage(JStr(<<"x">>), JAbsent, JAbsent, JAbsent, JInt(3))),
    QwenEntry(TsC, JAbsent, JAbsent, QwenUsage(JInt(-4), JAbsent, JAbsent, JAbsent, JInt(-4))),
    QwenEntry(TsA, JStr(assistant), ModelM1, NullQwenUsage),
    QwenEntry(TsA, JStr(assistant), JList, QwenUsage(JAbsent, JAbsent, JAbsent, JAbsent, JInt(9))) }

Lines(p) == IF p = "claude" THEN ClaudeLines ELSE QwenLines

(* ------------------------ extract_tokens_from_entry ------------------- *)

\* The counters of a bucket and of the extractor's result, in the order in
\* which process_jsonl_file adds them.
ClaudeKeys == <<"input_tokens", "output_tokens", "cache_read_tokens", "cache_creation_tokens">>

QwenKeys == <<"prompt_tokens", "candidates_tokens", "thoughts_tokens", "cached_tokens", "total_tokens">>

Keys(p) == IF p = "claude" THEN ClaudeKeys ELSE QwenKeys

KeySet(p) == {Keys(p)[i] : i \in 1..Len(Keys(p))}

\* usage.get(key, 0)
GetOrZero(v) == IF v.t = "absent" THEN JInt(0) ELSE v

\* dict.get(key): None for a missing key
GetOrNone(v) == IF v.t = "absent" THEN JNull ELSE v

\* A JSON object with at least one key is truthy.
DictTruthy(u) == u.t = "dict" /\ \E k \in DOMAIN u.d : u.d[k].t # "absent"

\* extract_tokens_from_entry of claude_tokens_daily.py
extract_tokens_from_entry(entry) ==
  LET isAssistant == entry.type = JStr(assistant)
      msg == entry.message
      model == IF isAssistant /\ msg.t = "dict" THEN GetOrNone(msg.model) ELSE JNull
      usage == IF entry.usage.t # "absent" THEN entry.usage
               ELSE IF isAssistant /\ msg.t = "dict" THEN msg.usage
               ELSE NoClaudeUsage
      read == DictTruthy(usage)
  IN [input_tokens |-> IF read THEN GetOrZero(usage.d.input_tokens) ELSE JInt(0),
      output_tokens |-> IF read THEN GetOrZero(usage.d.output_tokens) ELSE JInt(0),
      cache_read_tokens |-> IF read THEN GetOrZero(usage.d.cache_read_input_tokens) ELSE JInt(0),
      cache_creation_tokens |-> IF read THEN GetOrZero(usage.d.cache_creation_input_tokens) ELSE JInt(0),
      model |-> model]

\* extract_tokens_from_entry of qwen_tokens_daily.py
extract_tokens_from_entry_qwen(entry) ==
  LET model == IF entry.type = JStr(assistant) THEN GetOrNone(entry.model) ELSE JNull
      usage == entry.usageMetadata
      read == usage.t = "dict"
  IN [prompt_tokens |-> IF read THEN GetOrZero(usage.d.promptTokenCount) ELSE JInt(0),
      candidates_tokens |-> IF read THEN GetOrZero(usage.d.candidatesTokenCount) ELSE JInt(0),
      thoughts_tokens |-> IF read THEN GetOrZero(usage.d.thoughtsTokenCount) ELSE JInt(0),
      cached_tokens |-> IF read THEN GetOrZero(usage.d.cachedContentTokenCount) ELSE JInt(0),
      total_tokens |-> IF read THEN GetOrZero(usage.d.totalTokenCount) ELSE JInt(0),
      model |-> model]

(* --------------------------- process_jsonl_file ----------------------- *)

\* The default bucket of the defaultdict
NewBucket(p) ==
  IF p = "claude"
  THEN [input_tokens |-> 0, output_tokens |-> 0, cache_read_tokens |-> 0, cache_creation_tokens |-> 0,
        models_used |-> {}]
  ELSE [prompt_tokens |-> 0, candidates_tokens |-> 0, thoughts_tokens |-> 0, cached_tokens |-> 0,
        total_tokens |-> 0, models_used |-> {}]

EmptyDict == [d \in {} |-> NewBucket("claude")]

\* d[k] of a defaultdict, which makes the bucket when it is missing
Bucket(p, d, k) == IF k \in DOMAIN d THEN d[k] ELSE NewBucket(p)

\* d with d[k] = b
Put(d, k, b) == [x \in (DOMAIN d) \cup {k} |-> IF x = k THEN b ELSE d[x]]

\* The statements "bucket[key] += tokens[key]" for keys[i..], in order, up
\* to the first value that is no number: int + None and int + str raise
\* TypeError, and what was added before stays added.
RECURSIVE AddCounters(_, _, _, _)
AddCounters(bucket, tokens, keys, i) ==
  IF i > Len(keys) THEN [bucket |-> bucket, raised |-> FALSE]
  ELSE IF tokens[keys[i]].t # "int" THEN [bucket |-> bucket, raised |-> TRUE]
  ELSE AddCounters([bucket EXCEPT ![keys[i]] = @ + tokens[keys[i]].n], tokens, keys, i + 1)

\* models_used.add(model) when the model is truthy; a list cannot be hashed
\* (TypeError) and is not added.
AddModel(bucket, model) ==
  IF Truthy(model) /\ model.t # "list" THEN [bucket EXCEPT !.models_used = @ \cup {model}] ELSE bucket

\* json.loads(line) raises an exception that "except (json.JSONDecodeError,
\* KeyError, TypeError)" does not catch: it leaves process_jsonl_file and
\* main (see Uncaught).
Raises(line) == line.kind = "deep"

\* The body of the loop of process_jsonl_file of claude_tokens_daily.py for
\* one line: the mapping after the line.
process_line(daily, line, pads) ==
  IF line.kind # "object" THEN daily
  ELSE IF ~Truthy(line.timestamp) THEN daily
  ELSE LET date_key == parse_timestamp(line.timestamp, pads)
           tokens == extract_tokens_from_entry(line)
       IN IF \E i \in 1..Len(ClaudeKeys) : tokens[ClaudeKeys[i]].t # "int"
          THEN daily  \* sum() raises TypeError
          ELSE IF tokens.input_tokens.n + tokens.output_tokens.n + tokens.cache_read_tokens.n
                    + tokens.cache_creation_tokens.n = 0
          THEN daily
          ELSE Put(daily, date_key,
                   AddModel(AddCounters(Bucket("claude", daily, date_key), tokens, ClaudeKeys, 1).bucket,
                            tokens.model))

\* The body of the loop of process_jsonl_file of qwen_tokens_daily.py
process_line_qwen(daily, line, pads) ==
  IF line.kind # "object" THEN daily
  ELSE IF ~Truthy(line.timestamp) THEN daily
  ELSE LET date_key == parse_timestamp_qwen(line.timestamp, pads)
           tokens == extract_tokens_from_entry_qwen(line)
           added == AddCounters(Bucket("qwen", daily, date_key), tokens, QwenKeys, 1)
       IN IF tokens.total_tokens = JInt(0) THEN daily
          ELSE Put(daily, date_key,
                   IF added.raised THEN added.bucket ELSE AddModel(added.bucket, tokens.model))

ProcessLine(p, daily, line, pads) ==
  IF p = "claude" THEN process_line(daily, line, pads) ELSE process_line_qwen(daily, line, pads)

\* process_jsonl_file on the lines of a whole file
RECURSIVE process_jsonl_file(_, _, _)
process_jsonl_file(p, lines, pads) ==
  IF lines = <<>> THEN EmptyDict
  ELSE ProcessLine(p, process_jsonl_file(p, SubSeq(lines, 1, Len(lines) - 1), pads), lines[Len(lines)], pads)

(* --------------------------------- main ------------------------------- *)

\* "for date, stats in daily.items()": aggregated[date][key] += stats[key]
\* for every counter, and the model sets united.
MergeBucket(p, into, stats) ==
  [k \in DOMAIN into |-> IF k = "models_used" THEN into[k] \cup stats[k] ELSE into[k] + stats[k]]

\* A merge that stores the file's bucket over the one already there
MergeDaily_overwrite(p, aggregated, daily) ==
  [date \in (DOMAIN aggregated) \cup (DOMAIN daily) |->
     IF date \in DOMAIN daily THEN daily[date] ELSE aggregated[date]]

MergeDaily(p, aggregated, daily) ==
  [date \in (DOMAIN aggregated) \cup (DOMAIN daily) |->
     IF date \in DOMAIN daily THEN MergeBucket(p, Bucket(p, aggregated, date), daily[date])
     ELSE aggregated[date]]

\* The characters of date keys and model names, in code point order.
CodePointOrder ==
  <<"-", "0", "1", "2", "3", "4", "5", "6", "7", "8", "9", "k", "m", "n", "o", "u", "w", "x">>

CodePoints ==
  [c \in {CodePointOrder[i] : i \in 1..Len(CodePointOrder)} |->
     CHOOSE i \in 1..Len(CodePointOrder) : CodePointOrder[i] = c]

Ord(c) == CodePoints[c]

\* a < b for Python strings
RECURSIVE StrLess(_, _)
StrLess(a, b) ==
  IF b = <<>> THEN FALSE
  ELSE IF a = <<>> THEN TRUE
  ELSE IF a[1] = b[1] THEN StrLess(Tail(a), Tail(b))
  ELSE Ord(a[1]) < Ord(b[1])

\* sorted(S) with the greatest string first
RECURSIVE sorted_descending(_)
sorted_descending(S) ==
  IF S = {} THEN <<>>
  ELSE LET greatest == CHOOSE a \in S : \A b \in S \ {a} : StrLess(b, a)
       IN <<greatest>> \o sorted_descending(S \ {greatest})

\* sorted(S) for a set of strings
RECURSIVE sorted(_)
sorted(S) ==
  IF S = {} THEN <<>>
  ELSE LET least == CHOOSE a \in S : \A b \in S \ {a} : StrLess(a, b)
       IN <<least>> \o sorted(S \ {least})

\* sorted(models_used), the models being strings
SortedModels(models) == sorted({m.s : m \in models})

\* One element of "dates" of the JSON output of claude_tokens_daily.py
json_date(aggregated, d) ==
  [date |-> d,
   counters |-> [inputTokens |-> aggregated[d].input_tokens,
                 outputTokens |-> aggregated[d].output_tokens,
                 cacheReadTokens |-> aggregated[d].cache_read_tokens,
                 cacheCreationTokens |-> aggregated[d].cache_creation_tokens],
   totalTokens |-> aggregated[d].input_tokens + aggregated[d].output_tokens
                     + aggregated[d].cache_read_tokens + aggregated[d].cache_creation_tokens,
   totalTokensFormatted |-> format_tokens(aggregated[d].input_tokens + aggregated[d].output_tokens
                     + aggregated[d].cache_read_tokens + aggregated[d].cache_creation_tokens),
   models |-> SortedModels(aggregated[d].models_used)]

\* The total of the text output of claude_tokens_daily.py for one date
text_total(stats) ==
  stats.input_tokens + stats.output_tokens + stats.cache_read_tokens + stats.cache_creation_tokens

\* The paragraph of the text output of claude_tokens_daily.py for one date
text_date(aggregated, d) ==
  LET stats == aggregated[d]
  IN [date |-> d,
      counters |-> <<format_tokens(stats.input_tokens), format_tokens(stats.output_tokens),
                     format_tokens(stats.cache_read_tokens), format_tokens(stats.cache_creation_tokens)>>,
      total |-> format_tokens(text_total(stats)),
      models |-> SortedModels(stats.models_used)]

\* One element of "dates" of the JSON output of qwen_tokens_daily.py
json_date_qwen(aggregated, d) ==
  [date |-> d,
   counters |-> [promptTokens |-> aggregated[d].prompt_tokens,
                 candidatesTokens |-> aggregated[d].candidates_tokens,
                 thoughtsTokens |-> aggregated[d].thoughts_tokens,
                 cachedTokens |-> aggregated[d].cached_tokens],
   totalTokens |-> aggregated[d].total_tokens,
   totalTokensFormatted |-> format_tokens_qwen(aggregated[d].total_tokens),
   models |-> SortedModels(aggregated[d].models_used)]

\* A text renderer that recomputes provider B's total from the other counters
text_total_qwen_recomputed(stats) ==
  stats.prompt_tokens + stats.candidates_tokens + stats.thoughts_tokens + stats.cached_tokens

\* The total of the text output of qwen_tokens_daily.py for one date
text_total_qwen(stats) == stats.total_tokens

\* The paragraph of the text output of qwen_tokens_daily.py for one date
text_date_qwen(aggregated, d) ==
  LET stats == aggregated[d]
  IN [date |-> d,
      counters |-> <<format_tokens_qwen(stats.prompt_tokens), format_tokens_qwen(stats.candidates_tokens),
                     format_tokens_qwen(stats.thoughts_tokens), format_tokens_qwen(stats.cached_tokens)>>,
      total |-> format_tokens_qwen(text_total_qwen(stats)),
      models |-> SortedModels(stats.models_used)]

JsonDates(p, aggregated, sorted_dates) ==
  [i \in 1..Len(sorted_dates) |->
     IF p = "claude" THEN json_date(aggregated, sorted_dates[i]) ELSE json_date_qwen(aggregated, sorted_dates[i])]

TextDates(p, aggregated, sorted_dates) ==
  [i \in 1..Len(sorted_dates) |->
     IF p = "claude" THEN text_date(aggregated, sorted_dates[i]) ELSE text_date_qwen(aggregated, sorted_dates[i])]

TextTotal(p, stats) == IF p = "claude" THEN text_total(stats) ELSE text_total_qwen(stats)

(* ------------------------------ bounds -------------------------------- *)

\* The most .jsonl files in the directory
MaxFiles == 2

\* The most lines in all the files together
MaxLines == 2

(* ------------------------------- state -------------------------------- *)

VARIABLES
  provider,     \* "claude" or "qwen": which script runs
  pads,         \* whether the C library pads %Y to four digits
  pc,           \* where main is
  jsonl_files,  \* the number of *.jsonl files the glob found
  files,        \* the lines read so far, file by file
  daily,        \* process_jsonl_file's mapping for the file being read
  aggregated,   \* main's mapping
  stdout,       \* the report printed
  stderr,       \* the messages written to sys.stderr
  rc,           \* main's return value (-1: none yet)
  ts_str,       \* parse_timestamp's argument
  date_key,     \* parse_timestamp's result
  value,        \* format_tokens' argument
  formatted,    \* format_tokens' result
  raw_line,     \* parse_log_line's argument
  entry,        \* parse_log_line's result
  log_file,     \* the characters of the log file
  pending,      \* what the writer of the log has yet to write of its line
  written,      \* the number of lines the writer has begun
  follow,       \* args.follow
  nlines,       \* args.lines
  lines,        \* what f.readlines() returned
  idx,          \* the index in lines of the line the tail's loop is at
  pos,          \* the offset of the file object of the follow loop
  exit_status,  \* the argument of sys.exit (0: none)
  out,          \* what format_log.py has printed
  module_colors \* the keys of _MODULE_COLORS

aggVars == <<jsonl_files, files, daily, aggregated, stdout, stderr, rc>>

tsVars == <<ts_str, date_key>>

fmtVars == <<value, formatted>>

parseVars == <<raw_line, entry>>

tailVars == <<log_file, pending, written, follow, nlines, lines, idx, pos, exit_status>>

showVars == <<out, module_colors>>

logVars == <<parseVars, tailVars, showVars>>

vars == <<provider, pads, pc, aggVars, tsVars, fmtVars, logVars>>

\* The variables of the other programs, at rest while one program runs
nonAggVars == <<tsVars, fmtVars, logVars>>

nonTsVars == <<aggVars, fmtVars, logVars>>

nonFmtVars == <<aggVars, tsVars, logVars>>

nonLogVars == <<aggVars, tsVars, fmtVars>>

AggIdle ==
  /\ jsonl_files = 0
  /\ files = <<>>
  /\ daily = <<>>
  /\ aggregated = <<>>
  /\ stdout = [format |-> "none", dates |-> <<>>]
  /\ stderr = <<>>
  /\ rc = -1

TsIdle == ts_str = JAbsent /\ date_key = <<>>

FmtIdle == value = 0 /\ formatted = <<>>

ParseIdle == raw_line = <<>> /\ entry = NoEntry("none")

TailIdle ==
  /\ log_file = <<>>
  /\ pending = <<>>
  /\ written = 0
  /\ follow = FALSE
  /\ nlines = 0
  /\ lines = <<>>
  /\ idx = 0
  /\ pos = 0
  /\ exit_status = 0

ShowIdle == out = <<>> /\ module_colors = {}

LogIdle == ParseIdle /\ TailIdle /\ ShowIdle

NoReport == [format |-> "none", dates |-> <<>>]

\* The number of lines read from all the files so far
RECURSIVE TotalLen(_)
TotalLen(fs) == IF fs = <<>> THEN 0 ELSE Len(fs[1]) + TotalLen(Tail(fs))

\* The state at the start of main of either aggregator.  The timestamps of
\* the lines have years of four significant digits, for which strftime
\* gives the same text whether or not the C library pads the year.
Init ==
  /\ provider \in {"claude", "qwen"}
  /\ pads = TRUE
  /\ pc = "discover"
  /\ jsonl_files = 0
  /\ files = <<>>
  /\ daily = EmptyDict
  /\ aggregated = EmptyDict
  /\ stdout = NoReport
  /\ stderr = <<>>
  /\ rc = -1
  /\ TsIdle
  /\ FmtIdle
  /\ LogIdle

\* main: none of the candidate directories exists
NoProjectDir ==
  /\ pc = "discover"
  /\ stderr' = <<"Error: Cannot find project directory.", "Expected:">>
  /\ rc' = 1
  /\ pc' = "done"
  /\ UNCHANGED <<provider, pads, jsonl_files, files, daily, aggregated, stdout>>
  /\ UNCHANGED nonAggVars

\* main: the glob finds no *.jsonl file
NoJsonlFiles ==
  /\ pc = "discover"
  /\ jsonl_files' = 0
  /\ stderr' = <<"Error: No .jsonl files found">>
  /\ rc' = 1
  /\ pc' = "done"
  /\ UNCHANGED <<provider, pads, files, daily, aggregated, stdout>>
  /\ UNCHANGED nonAggVars

\* main: the glob finds n files
FoundFiles(n) ==
  /\ pc = "discover"
  /\ jsonl_files' = n
  /\ pc' = "open"
  /\ UNCHANGED <<provider, pads, files, daily, aggregated, stdout, stderr, rc>>
  /\ UNCHANGED nonAggVars

\* process_jsonl_file starts on the next file
OpenFile ==
  /\ pc = "open"
  /\ Len(files) < jsonl_files
  /\ files' = Append(files, <<>>)
  /\ daily' = EmptyDict
  /\ pc' = "read"
  /\ UNCHANGED <<provider, pads, jsonl_files, aggregated, stdout, stderr, rc>>
  /\ UNCHANGED nonAggVars

\* process_jsonl_file reads one more line of the file
ReadLine(line) ==
  /\ pc = "read"
  /\ TotalLen(files) < MaxLines
  /\ ~Raises(line)
  /\ files' = [files EXCEPT ![Len(files)] = Append(@, line)]
  /\ daily' = ProcessLine(provider, daily, line, pads)
  /\ UNCHANGED <<provider, pads, pc, jsonl_files, aggregated, stdout, stderr, rc>>
  /\ UNCHANGED nonAggVars

\* process_jsonl_file reads a line whose exception nothing catches: the
\* interpreter prints the traceback and ends with status 1
Uncaught(line) ==
  /\ pc = "read"
  /\ TotalLen(files) < MaxLines
  /\ Raises(line)
  /\ files' = [files EXCEPT ![Len(files)] = Append(@, line)]
  /\ stderr' = <<"Traceback (most recent call last):">>
  /\ rc' = 1
  /\ pc' = "crashed"
  /\ UNCHANGED <<provider, pads, jsonl_files, daily, aggregated, stdout>>
  /\ UNCHANGED nonAggVars

\* The file ends: process_jsonl_file returns dict(daily) and main merges it
EndOfFile ==
  /\ pc = "read"
  /\ aggregated' = MergeDaily(provider, aggregated, daily)
  /\ pc' = IF Len(files) < jsonl_files THEN "open" ELSE "output"
  /\ UNCHANGED <<provider, pads, jsonl_files, files, daily, stdout, stderr, rc>>
  /\ UNCHANGED nonAggVars

\* main: sorted_dates is empty
NoTokenData ==
  /\ pc = "output"
  /\ sorted(DOMAIN aggregated) = <<>>
  /\ stderr' = <<"No token usage data found">>
  /\ rc' = 1
  /\ pc' = "done"
  /\ UNCHANGED <<provider, pads, jsonl_files, files, daily, aggregated, stdout>>
  /\ UNCHANGED nonAggVars

\* main with --json
OutputJson ==
  /\ pc = "output"
  /\ \E sorted_dates \in {sorted(DOMAIN aggregated)} :
       /\ sorted_dates # <<>>
       /\ stdout' = [format |-> "json", dates |-> JsonDates(provider, aggregated, sorted_dates)]
  /\ rc' = 0
  /\ pc' = "done"
  /\ UNCHANGED <<provider, pads, jsonl_files, files, daily, aggregated, stderr>>
  /\ UNCHANGED nonAggVars

\* main without --json
OutputText ==
  /\ pc = "output"
  /\ \E sorted_dates \in {sorted(DOMAIN aggregated)} :
       /\ sorted_dates # <<>>
       /\ stdout' = [format |-> "text", dates |-> TextDates(provider, aggregated, sorted_dates)]
  /\ rc' = 0
  /\ pc' = "done"
  /\ UNCHANGED <<provider, pads, jsonl_files, files, daily, aggregated, stderr>>
  /\ UNCHANGED nonAggVars

Next ==
  \/ NoProjectDir
  \/ NoJsonlFiles
  \/ \E n \in 1..MaxFiles : FoundFiles(n)
  \/ OpenFile
  \/ \E line \in Lines(provider) : ReadLine(line)
  \/ \E line \in Lines(provider) : Uncaught(line)
  \/ EndOfFile
  \/ NoTokenData
  \/ OutputJson
  \/ OutputText

Spec == Init /\ [][Next]_vars

(* ---------------- parse_timestamp as a program of its own -------------- *)

\* The most digits of a fraction of a second
MaxFracDigits == 6

TsYears == {1, 999, 1000, 2024, 2026, 9999}

\* <<month, day>>: valid ones, and the 29th of February, the 31st of April
\* and a 13th month
TsMonthDays == {<<1, 1>>, <<2, 28>>, <<2, 29>>, <<4, 31>>, <<12, 31>>, <<13, 1>>}

\* <<hour, minute, second>>: valid ones, hour 24 and second 60
TsTimes == {<<0, 0, 0>>, <<23, 59, 59>>, <<24, 0, 0>>, <<10, 0, 60>>}

\* The first n digits of 123456789...
Fraction(n) == [i \in 1..n |-> DigitChars[(i % 10) + 1]]

ZTimestamps ==
  {JStr(MkTimestamp(y, md[1], md[2], hms[1], hms[2], hms[3], Fraction(n))) :
     y \in TsYears, md \in TsMonthDays, hms \in TsTimes, n \in 0..MaxFracDigits}

\* None, "", 0, 5, a list, text that is no timestamp, timestamps with an
\* offset or without a zone, and a date alone
OtherTimestamps ==
  { JAbsent, JNull, JStr(<<>>), JInt(0), JInt(5), JList, JStr(<<"x">>), JStr(<<"Z">>), JStr(<<".", "Z">>),
    JStr(SubSeq(MkTimestamp(2026, 1, 1, 10, 0, 0, <<>>), 1, 19) \o <<"+", "0", "8", ":", "0", "0">>),
    JStr(SubSeq(MkTimestamp(2026, 1, 1, 10, 0, 0, <<"1", "2", "3">>), 1, 23) \o <<"-", "0", "5", ":", "0", "0">>),
    JStr(SubSeq(MkTimestamp(2026, 1, 1, 10, 0, 0, <<>>), 1, 19)),
    JStr(SubSeq(MkTimestamp(2026, 2, 30, 10, 0, 0, <<>>), 1, 19)),
    JStr(SubSeq(MkTimestamp(2026, 1, 1, 10, 0, 0, <<>>), 1, 10)),
    JStr(MkTimestamp(2026, 1, 1, 10, 0, 0, <<"x">>)),
    JStr(MkTimestamp(2026, 1, 1, 10, 0, 0, <<>>) \o <<"Z">>) }

InitTs ==
  /\ provider \in {"claude", "qwen"}
  /\ pads \in BOOLEAN
  /\ pc = "parse"
  /\ ts_str \in ZTimestamps \cup OtherTimestamps
  /\ date_key = <<>>
  /\ AggIdle
  /\ FmtIdle
  /\ LogIdle

\* date_key = parse_timestamp(ts)
ParseTimestamp ==
  /\ pc = "parse"
  /\ date_key' = IF provider = "claude" THEN parse_timestamp(ts_str, pads) ELSE parse_timestamp_qwen(ts_str, pads)
  /\ pc' = "parsed"
  /\ UNCHANGED <<provider, pads, ts_str>>
  /\ UNCHANGED nonTsVars

NextTs == ParseTimestamp

SpecTs == InitTs /\ [][NextTs]_vars

\* s is YYYY-MM-DDTHH:MM:SS, an optional "." with one digit or more, and Z
IsZShape(s) ==
  /\ Len(s) >= 20
  /\ DigitsAt(s, 1, 4) /\ s[5] = "-" /\ DigitsAt(s, 6, 2) /\ s[8] = "-" /\ DigitsAt(s, 9, 2)
  /\ s[11] = "T" /\ DigitsAt(s, 12, 2) /\ s[14] = ":" /\ DigitsAt(s, 15, 2) /\ s[17] = ":"
  /\ DigitsAt(s, 18, 2)
  /\ \/ (Len(s) = 20 /\ s[20] = "Z")
     \/ (Len(s) >= 22 /\ s[20] = "." /\ s[Len(s)] = "Z" /\ DigitsAt(s, 21, Len(s) - 21))

\* The date and the time s names exist (years 0001 to 9999)
IsValidCalendar(s) ==
  LET y == DecVal(SubSeq(s, 1, 4))
      m == DecVal(SubSeq(s, 6, 7))
      d == DecVal(SubSeq(s, 9, 10))
  IN /\ y >= 1
     /\ m >= 1 /\ m <= 12
     /\ d >= 1 /\ d <= (IF m = 2 THEN (IF y % 4 = 0 /\ (y % 100 # 0 \/ y % 400 = 0) THEN 29 ELSE 28)
                        ELSE IF m \in {4, 6, 9, 11} THEN 30 ELSE 31)
     /\ DecVal(SubSeq(s, 12, 13)) <= 23
     /\ DecVal(SubSeq(s, 15, 16)) <= 59
     /\ DecVal(SubSeq(s, 18, 19)) <= 59

\* C3: parse_timestamp returns the first ten characters of every timestamp
\* YYYY-MM-DDTHH:MM:SS[.f...]Z that names a valid date and time, whatever the
\* number of fraction digits, and "unknown" for None, "", a value that is no
\* string, and a timestamp of that shape whose date or time does not exist.
C3_DateOfTimestamp ==
  pc = "parsed" =>
    /\ (ts_str.t = "str" /\ IsZShape(ts_str.s) /\ IsValidCalendar(ts_str.s))
         => date_key = SubSeq(ts_str.s, 1, 10)
    /\ (ts_str.t = "str" /\ IsZShape(ts_str.s) /\ ~IsValidCalendar(ts_str.s)) => date_key = unknown
    /\ (ts_str.t # "str" \/ ts_str.s = <<>>) => date_key = unknown

(* ----------------- format_tokens as a program of its own --------------- *)

\* Values are taken up to this far from 0, from 1,000,000 and from 1,500,000
FmtWindow == 1500

FmtValues ==
  (0..FmtWindow) \cup ((1000000 - FmtWindow)..(1000000 + FmtWindow))
    \cup ((1500000 - FmtWindow)..(1500000 + FmtWindow))

InitFmt ==
  /\ provider \in {"claude", "qwen"}
  /\ pads = TRUE
  /\ pc = "format"
  /\ value \in FmtValues
  /\ formatted = <<>>
  /\ AggIdle
  /\ TsIdle
  /\ LogIdle

\* formatted = format_tokens(value)
FormatTokens ==
  /\ pc = "format"
  /\ formatted' = IF provider = "claude" THEN format_tokens(value) ELSE format_tokens_qwen(value)
  /\ pc' = "formatted"
  /\ UNCHANGED <<provider, pads, value>>
  /\ UNCHANGED nonFmtVars

NextFmt == FormatTokens

SpecFmt == InitFmt /\ [][NextFmt]_vars

\* The number of hundredths a string "<digits>.<two digits><suffix>" names,
\* -1 when the string has no such shape
HundredthsRead(s, suffix) ==
  LET dot == FirstIndex(s, ".")
  IN IF /\ dot >= 2
        /\ Len(s) = dot + 3
        /\ s[Len(s)] = suffix
        /\ DigitsAt(s, 1, dot - 1)
        /\ DigitsAt(s, dot + 1, 2)
        /\ (dot = 2 \/ s[1] # "0")
     THEN DecVal(SubSeq(s, 1, dot - 1)) * 100 + DecVal(SubSeq(s, dot + 1, dot + 2))
     ELSE -1

Abs(n) == IF n < 0 THEN 0 - n ELSE n

\* C9: below 1000 the result is the integer's digits; from 1000 on it is
\* value/1000 with two decimals and K, from 1,000,000 on value/1,000,000
\* with two decimals and M, the two decimals being the nearest hundredth;
\* 999 gives "999", 1000 "1.00K", 1500000 "1.50M"; both providers agree.
C9_FormatTokens ==
  pc = "formatted" =>
    /\ value < 1000 => (formatted = Decimal(value) /\ DigitsAt(formatted, 1, Len(formatted)))
    /\ (value >= 1000 /\ value < 1000000) =>
         /\ HundredthsRead(formatted, "K") >= 0
         /\ Abs(HundredthsRead(formatted, "K") * 10 - value) <= 5
    /\ value >= 1000000 =>
         /\ HundredthsRead(formatted, "M") >= 0
         /\ Abs(HundredthsRead(formatted, "M") * 10000 - value) <= 5000
    /\ value = 999 => formatted = <<"9", "9", "9">>
    /\ value = 1000 => formatted = <<"1", ".", "0", "0", "K">>
    /\ value = 1500000 => formatted = <<"1", ".", "5", "0", "M">>
    /\ formatted = format_tokens(value)
    /\ formatted = format_tokens_qwen(value)

\* The three values the specification names have been formatted, and a
\* value whose thousandth is a 5
C9_Witness ==
  /\ pc = "formatted"
  /\ value = 1005
  /\ formatted = <<"1", ".", "0", "0", "K">>

(* ------------------------ claims on the aggregators -------------------- *)

\* The lines of the files, one after the other
RECURSIVE Concat(_)
Concat(fs) == IF fs = <<>> THEN <<>> ELSE fs[1] \o Concat(Tail(fs))

Reverse(s) == [i \in 1..Len(s) |-> s[Len(s) + 1 - i]]

Tokens(p, line) == IF p = "claude" THEN extract_tokens_from_entry(line) ELSE extract_tokens_from_entry_qwen(line)

DateKey(p, line, pd) ==
  IF p = "claude" THEN parse_timestamp(line.timestamp, pd) ELSE parse_timestamp_qwen(line.timestamp, pd)

\* A record that counts: it has a timestamp, its counters are numbers, and
\* a relevant counter is not zero (provider A: one of the four; provider B:
\* the reported total).
Usable(p, line) ==
  /\ line.kind = "object"
  /\ Truthy(line.timestamp)
  /\ \A k \in KeySet(p) : Tokens(p, line)[k].t = "int"
  /\ IF p = "claude" THEN \E k \in KeySet(p) : Tokens(p, line)[k].n # 0
     ELSE Tokens(p, line).total_tokens.n # 0

\* The sum of counter k over the usable records among recs dated d
RECURSIVE SumOver(_, _, _, _, _)
SumOver(p, recs, d, k, pd) ==
  IF recs = <<>> THEN 0
  ELSE SumOver(p, Tail(recs), d, k, pd)
         + (IF Usable(p, recs[1]) /\ DateKey(p, recs[1], pd) = d THEN Tokens(p, recs[1])[k].n ELSE 0)

DateKeysOf(p, recs, pd) == {DateKey(p, recs[i], pd) : i \in 1..Len(recs)}

\* C1: while a file is read, each counter of each date bucket is the sum of
\* that counter's field over exactly the usable records read so far (a date
\* without a bucket counts as all zero), whatever the order of the lines.
C1_CountersAreSums ==
  pc = "read" =>
    \A d \in (DOMAIN daily) \cup DateKeysOf(provider, files[Len(files)], pads) :
      \A k \in KeySet(provider) :
        Bucket(provider, daily, d)[k] = SumOver(provider, files[Len(files)], d, k, pads)

\* The files main has merged so far
MergedFiles == IF pc = "read" THEN SubSeq(files, 1, Len(files) - 1) ELSE files

\* C2: when main has merged the aggregates of all the files it found, the
\* merged mapping is the single-file aggregation of the files' lines put one
\* after the other, in either file order.
C2_MergeIsConcat ==
  pc = "output" =>
    LET forward == Concat(MergedFiles)
        backward == Concat(Reverse(MergedFiles))
    IN /\ aggregated = process_jsonl_file(provider, forward, pads)
       /\ backward # forward => aggregated = process_jsonl_file(provider, backward, pads)

\* Two merged files that both added tokens to one date
C2_Witness ==
  /\ pc = "output"
  /\ Len(files) = 2
  /\ \E d \in DOMAIN aggregated :
       /\ d \in DOMAIN process_jsonl_file(provider, files[1], pads)
       /\ d \in DOMAIN process_jsonl_file(provider, files[2], pads)
       /\ \E k \in KeySet(provider) :
            /\ process_jsonl_file(provider, files[1], pads)[d][k] > 0
            /\ process_jsonl_file(provider, files[2], pads)[d][k] > 0

\* A record that added tokens to a bucket
Contributed(p, line, pd) ==
  \E d \in DOMAIN ProcessLine(p, EmptyDict, line, pd) :
    \E k \in KeySet(p) : ProcessLine(p, EmptyDict, line, pd)[d][k] # 0

SomeRecordContributed ==
  \E i \in 1..Len(Concat(files)) : Contributed(provider, Concat(files)[i], pads)

\* C5: when main has ended and there was no .jsonl file or no record added
\* tokens to a bucket, main wrote to stderr, returned 1 and printed no
\* report; a report is printed only if some record added tokens.
C5_FailureWhenNothingUsable ==
  pc = "done" =>
    /\ (jsonl_files = 0 \/ ~SomeRecordContributed) => (stderr # <<>> /\ rc = 1 /\ stdout = NoReport)
    /\ stdout # NoReport => SomeRecordContributed

\* C7: every counter of every bucket is at least 0, and no step of the
\* pass over a file makes a counter smaller.
C7_CountersMonotone ==
  [][(pc = "read" /\ pc' = "read") =>
       \A d \in DOMAIN daily' : \A k \in KeySet(provider) :
         /\ daily'[d][k] >= 0
         /\ daily'[d][k] >= Bucket(provider, daily, d)[k]]_vars

\* C10: for a printed report, date by date, the total the JSON renderer
\* reports is the total the text renderer formats, and the two formatted
\* totals are the same string; provider A's total is the sum of the four
\* counters and provider B's is the accumulated reported total; and the
\* mapping is, after rendering, still what the files' lines add up to.
C10_RenderersAgree ==
  (pc = "done" /\ stdout # NoReport) =>
    LET sd == sorted(DOMAIN aggregated)
        js == JsonDates(provider, aggregated, sd)
        tx == TextDates(provider, aggregated, sd)
    IN /\ stdout.dates = IF stdout.format = "json" THEN js ELSE tx
       /\ Len(stdout.dates) = Len(sd)
       /\ \A i \in 1..Len(sd) :
            /\ js[i].totalTokens = TextTotal(provider, aggregated[sd[i]])
            /\ js[i].totalTokensFormatted = tx[i].total
            /\ provider = "claude" =>
                 js[i].totalTokens = aggregated[sd[i]].input_tokens + aggregated[sd[i]].output_tokens
                     + aggregated[sd[i]].cache_read_tokens + aggregated[sd[i]].cache_creation_tokens
            /\ provider = "qwen" => js[i].totalTokens = aggregated[sd[i]].total_tokens
       /\ aggregated = process_jsonl_file(provider, Concat(files), pads)

\* A printed report of provider B with a date whose reported total is not
\* the sum of its other four counters
C10_Witness ==
  /\ pc = "done"
  /\ stdout # NoReport
  /\ provider = "qwen"
  /\ \E d \in DOMAIN aggregated :
       /\ aggregated[d].total_tokens >= 1000
       /\ aggregated[d].total_tokens # aggregated[d].prompt_tokens + aggregated[d].candidates_tokens
            + aggregated[d].thoughts_tokens + aggregated[d].cached_tokens

(* ------------------- format_log.py: one line at a time ----------------- *)

\* What the loop bodies of main (lines 307-311 and 328-332) print for a
\* line whose parse_log_line result is e: nothing, the formatted entry, or
\* the raw line behind the marker.  fault: an exception left the body.
ShowEntry(raw, e, colors, pads_, local) ==
  LET f == format_log_entry(e, colors, pads_, local)
      Faulted == [fault |-> TRUE, out |-> <<>>, colors |-> colors]
  IN IF e.kind = "fault" THEN Faulted
     ELSE IF e.kind = "entry"
          THEN IF f.fault THEN Faulted
               ELSE [fault |-> FALSE, out |-> <<[kind |-> "entry", text |-> f.text]>>, colors |-> f.colors]
     ELSE IF Strip(raw) # <<>>
          THEN [fault |-> FALSE, out |-> <<[kind |-> "raw", text |-> RStripWs(raw)]>>, colors |-> colors]
     ELSE [fault |-> FALSE, out |-> <<>>, colors |-> colors]

\* The printed items with where they come from: src, the characters read,
\* and at, the offset in the log file of the first of them (from 1)
Stamp(items, at, src) ==
  [i \in 1..Len(items) |-> [kind |-> items[i].kind, text |-> items[i].text, at |-> at, src |-> src]]

\* A printed block that comes from no line: the header, "Recent logs:", the
\* empty line after the tail, "Live monitoring", "Monitoring stopped." and
\* the two error messages
Banner(kind) == [kind |-> kind, text |-> <<>>, at |-> 0, src |-> <<>>]

\* The machine's time zones the model runs in, in minutes east of UTC
LocalOffsets == {0, 480}

\* Values of the field "0": paths, texts, JSON texts, broken JSON texts,
\* quoted strings, and values that are no strings
Msg0Options ==
  << JStr(<<"g", "a", "t", "e", "w", "a", "y", "/", "c", "a", "n", "v", "a", "s">>),
     JStr(<<"a", " ", "b", "/", "c">>),
     JStr(<<"a", "b", "c", "d", "e", "f", "g", "h", "i", "j", "k", "l", "m", "n", "o", "p", "q", "r", "s", "t", "u", "v", "w", "x", "y", "z", "a", "b", "c", "d", "/", "x">>),
     JStr(<<"a", "b", "c", "d", "e", "f", "g", "h", "i", "j", "k", "l", "m", "n", "o", "p", "q", "r", "s", "t", "u", "v", "w", "x", "y", "z", "a", "b", "c", "/", "x">>),
     JStr(<<"h", "t", "t", "p", ":", "/", "/", "x", "/", "y">>),
     JStr(<<"h", "e", "l", "l", "o">>),
     JStr(<<>>),
     JStr(<<"/", "x">>),
     JStr(<<"{", "\"", "s", "u", "b", "s", "y", "s", "t", "e", "m", "\"", ":", "\"", "g", "a", "t", "e", "w", "a", "y", "/", "c", "a", "n", "v", "a", "s", "\"", "}">>),
     JStr(<<"{", "\"", "s", "u", "b", "s", "y", "s", "t", "e", "m", "\"", ":", "\"", "g", "a", "t", "e", "w", "a", "y", "\"", "}">>),
     JStr(<<"{", "\"", "x", "\"", ":", "1", "}">>),
     JStr(<<"{", "\"", "s", "u", "b", "s", "y", "s", "t", "e", "m", "\"", ":", "5", "}">>),
     JStr(<<"{", "\"", "s", "u", "b", "s", "y", "s", "t", "e", "m", "\"", ":", "[", "\"", "a", "\"", "]", "}">>),
     JStr(<<"{", "\"", "s", "u", "b", "s", "y", "s", "t", "e", "m", "\"", ":", "[", "\"", "/", "\"", "]", "}">>),
     JStr(<<"{", "\"", "s", "u", "b", "s", "y", "s", "t", "e", "m", "\"", ":", "n", "u", "l", "l", "}">>),
     JStr(<<"{", "\"", "s", "u", "b", "s", "y", "s", "t", "e", "m", "\"", ":", "{", "\"", "a", "\"", ":", "1", "}", "}">>),
     JStr(<<"{", "g", "a", "t", "e", "w", "a", "y", "/", "c", "a", "n", "v", "a", "s">>),
     JStr(<<"{", "\"", "s", "u", "b", "s", "y", "s", "t", "e", "m", "\"", ":", " ", "\"", "a", "/", "b", "\"">>),
     JStr(<<"{", "}", "/", "x">>),
     JStr(<<"\"", "g", "a", "t", "e", "w", "a", "y", "/", "c", "a", "n", "v", "a", "s", "\"">>),
     JStr(<<"\"", "h", "e", "l", "l", "o", "\"">>),
     JStr(<<"\"", "a", "/", "b">>),
     JStr(<<"\"", "a", "\"", "/", "\"", "b", "\"">>),
     JStr(<<"\"", "a", " ", "b", "/", "c", "\"", " ", "\"">>),
     JStr(<<" ", "\"", "a", "/", "b", "\"">>),
     JStr(<<"\"", "a", "b", "c", "d", "e", "f", "g", "h", "i", "j", "k", "l", "m", "n", "o", "p", "q", "r", "s", "t", "u", "v", "w", "x", "y", "z", "a", "b", "c", "d", "/", "x", "\"", "y", "\"">>),
     JStr(<<"\"", "g", "a", "t", "e", "w", "a", "y", "/", "c", "a", "n", "v", "a", "s", "\\", "q", "\"">>),
     JStr(<<"5">>),
     JStr(<<"n", "u", "l", "l">>),
     JStr(<<"[", "\"", "a", "/", "b", "\"", "]">>),
     JStr(<<"o", "n", "e", "\n", "t", "w", "o">>),
     JStr(<<"o", "n", "e", "\\", "n", "t", "w", "o">>),
     JInt(7),
     JObj(<<<<<<"s", "u", "b", "s", "y", "s", "t", "e", "m">>, JStr(<<"x", "/", "y">>)>>>>),
     JAbsent >>

\* Values of the field "1"
Msg1Options ==
  << JAbsent,
     JStr(<<"b", "o", "o", "m">>),
     JStr(<<>>),
     JStr(<<"a", "\n", "b">>),
     JStr(<<"a", "\\", "n", "b">>),
     JInt(5),
     JInt(0),
     JArr(<<JInt(1), JStr(<<"x">>)>>),
     JObj(<<<<<<"k">>, JStr(<<"v">>)>>>>),
     JNull,
     JBool(TRUE),
     JBool(FALSE) >>

\* Values of the field "_meta"
MetaOptions ==
  << JObj(<<<<<<"l", "o", "g", "L", "e", "v", "e", "l", "N", "a", "m", "e">>, JStr(<<"E", "R", "R", "O", "R">>)>>>>),
     JAbsent,
     JObj(<<>>),
     JObj(<<<<<<"l", "o", "g", "L", "e", "v", "e", "l", "N", "a", "m", "e">>, JInt(5)>>>>),
     JObj(<<<<<<"l", "o", "g", "L", "e", "v", "e", "l", "N", "a", "m", "e">>, JNull>>>>),
     JObj(<<<<<<"l", "o", "g", "L", "e", "v", "e", "l", "N", "a", "m", "e">>, JArr(<<JStr(<<"x">>)>>)>>>>),
     JStr(<<"x">>),
     JNull,
     JObj(<<<<<<"l", "o", "g", "L", "e", "v", "e", "l", "N", "a", "m", "e">>, JStr(<<"W", "A", "R", "N">>)>>, <<<<"n", "a", "m", "e">>, JStr(<<"g", "w">>)>>>>) >>

\* Values of the field "time"
TimeOptions ==
  << JStr(<<"2", "0", "2", "6", "-", "0", "2", "-", "2", "7", "T", "1", "6", ":", "2", "6", ":", "4", "6", ".", "3", "0", "6", "Z">>),
     JAbsent,
     JStr(<<"y", "e", "s", "t", "e", "r", "d", "a", "y">>),
     JInt(5),
     JStr(<<"2", "0", "2", "6", "-", "1", "2", "-", "3", "1", "T", "2", "0", ":", "0", "0", ":", "0", "0", "Z">>),
     JStr(<<"2", "0", "2", "6", "-", "0", "2", "-", "2", "7", "T", "1", "6", ":", "2", "6", ":", "4", "6", "+", "0", "5", ":", "3", "0">>),
     JStr(<<"9", "9", "9", "9", "-", "1", "2", "-", "3", "1", "T", "2", "0", ":", "0", "0", ":", "0", "0", "Z">>),
     JStr(<<"0", "9", "9", "9", "-", "0", "1", "-", "0", "1", "T", "0", "0", ":", "0", "0", ":", "0", "0", "Z">>),
     JNull >>

\* Lines that are not made of the four fields
RawLines ==
  << <<>>,
     <<" ", " ", " ">>,
     <<"p", "l", "a", "i", "n", " ", "t", "e", "x", "t">>,
     <<"5">>,
     <<"[", "1", "]">>,
     <<"\"", "s", "t", "r", "\"">>,
     <<"n", "u", "l", "l">>,
     <<"t", "r", "u", "e">>,
     <<"{", "}">>,
     <<" ", " ", "{", "\"", "1", "\"", ":", "\"", "x", "\"", "}", " ", " ">>,
     <<"{", "\"", "1", "\"", ":", "\"", "x", "\"">>,
     <<"{", "\"", "0", "\"", ":", "\"", "a", "/", "b", "\"", ",", "\"", "0", "\"", ":", "\"", "c", " ", "d", "\"", ",", "\"", "1", "\"", ":", "\"", "m", "\"", "}">> >>

\* The log line a logger writes for the four fields (absent ones left out)
MkLogLine(time, meta, m0, m1) ==
  LET all == << <<<<"t", "i", "m", "e">>, time>>, <<<<"_", "m", "e", "t", "a">>, meta>>,
                <<<<"0">>, m0>>, <<<<"1">>, m1>> >>
      F[i \in 0..4] == IF i = 0 THEN <<>>
                       ELSE IF all[i][2].t = "absent" THEN F[i - 1] ELSE Append(F[i - 1], all[i])
  IN Dumps(JObj(F[4]), <<",">>, <<":">>)

ParseLines ==
  {MkLogLine(TimeOptions[1], MetaOptions[1], Msg0Options[i], Msg1Options[j]) \o <<"\n">> :
     i \in 1..Len(Msg0Options), j \in 1..Len(Msg1Options)}
  \cup {MkLogLine(TimeOptions[j], MetaOptions[i], Msg0Options[1], Msg1Options[2]) \o <<"\n">> :
          i \in 1..Len(MetaOptions), j \in 1..Len(TimeOptions)}
  \cup {RawLines[i] \o <<"\n">> : i \in 1..Len(RawLines)}

InitParse ==
  /\ provider = "format_log"
  /\ pads \in BOOLEAN
  /\ pc = "line"
  /\ raw_line \in ParseLines
  /\ entry = NoEntry("none")
  /\ TailIdle
  /\ ShowIdle
  /\ AggIdle
  /\ TsIdle
  /\ FmtIdle

\* entry = parse_log_line(line)
ParseLogLine ==
  /\ pc = "line"
  /\ \E e \in {parse_log_line(raw_line)} :
       /\ entry' = e
       /\ pc' = IF e.kind = "fault" THEN "fault" ELSE "parsed"
  /\ UNCHANGED <<provider, pads, raw_line, tailVars, showVars, nonLogVars>>

\* The rest of the loop body: print the entry or the raw line.  (A set of
\* one element gives its element a name, as in the actions of main below.)
PrintLine ==
  /\ pc = "parsed"
  /\ \E local \in LocalOffsets :
       \E r \in {ShowEntry(raw_line, entry, module_colors, pads, local)} :
          /\ out' = out \o Stamp(r.out, 1, raw_line)
          /\ module_colors' = r.colors
          /\ pc' = IF r.fault THEN "fault" ELSE "printed"
  /\ UNCHANGED <<provider, pads, parseVars, tailVars, nonLogVars>>

NextParse == ParseLogLine \/ PrintLine

SpecParse == InitParse /\ [][NextParse]_vars

(* ----------------------- format_log.py: main -------------------------- *)

\* The number of lines the writer of the log writes
MaxLogLines == 3

\* The default of -n/--lines
DefaultLines == 20

\* The -n values the model runs with
LineCounts == {0, 1, DefaultLines}

LogKinds == {"entry", "text", "blank", "fault"}

\* The kinds of lines the writer writes in two parts
PartKinds == {"entry", "text"}

\* The k-th line of the log, without its newline: an entry with a module
\* and the message m<k>, a text that is no JSON, a blank line, or the JSON
\* array [k]
LogText(kind, k) ==
  CASE kind = "entry" -> MkLogLine(JAbsent, JAbsent, JStr(<<"g", "w", "/", "x">>), JStr(<<"m">> \o Decimal(k)))
    [] kind = "text" -> <<"o", "o", "p", "s">> \o Decimal(k)
    [] kind = "blank" -> <<" ">>
    [] OTHER -> <<"[">> \o Decimal(k) \o <<"]">>

\* f.readlines() on the characters f
RECURSIVE readlines(_)
readlines(f) ==
  IF f = <<>> THEN <<>>
  ELSE IF ~Contains(f, "\n") THEN <<f>>
  ELSE <<SubSeq(f, 1, FirstIndex(f, "\n"))>> \o readlines(Drop(f, FirstIndex(f, "\n") + 1))

\* f.readline() at offset p: up to and with the next newline, or what is left
readline(f, p) ==
  LET rest == Drop(f, p + 1)
  IN IF Contains(rest, "\n") THEN SubSeq(rest, 1, FirstIndex(rest, "\n")) ELSE rest

\* The index (from 1) of the first item of ls[-n:]
SliceStart(len, n) ==
  IF n = 0 THEN 1
  ELSE IF n > 0 THEN (IF len > n THEN len - n + 1 ELSE 1)
  ELSE (IF 0 - n < len THEN 1 - n ELSE len + 1)

\* The offset in the file of the first character of ls[i]
RECURSIVE OffsetOf(_, _)
OffsetOf(ls, i) == IF i <= 1 THEN 1 ELSE OffsetOf(ls, i - 1) + Len(ls[i - 1])

\* f.seek(0, 2) with 0 for the 2: the start of the file
seek_start(f) == 0

\* f.seek(0, 2): the offset of the end of the file
seek_end(f) == Len(f)

InitLog ==
  /\ provider = "format_log"
  /\ pads = TRUE
  /\ pc = "start"
  /\ follow \in BOOLEAN
  /\ nlines \in LineCounts
  /\ log_file = <<>>
  /\ pending = <<>>
  /\ written = 0
  /\ lines = <<>>
  /\ idx = 0
  /\ pos = 0
  /\ exit_status = 0
  /\ ParseIdle
  /\ ShowIdle
  /\ AggIdle
  /\ TsIdle
  /\ FmtIdle

readerVars == <<follow, nlines, lines, idx, pos, exit_status, showVars>>

writerVars == <<log_file, pending, written>>

logFrame == <<provider, pads, parseVars, nonLogVars>>

\* The writer of the log appends a whole line
WriteLine(kind) ==
  /\ pc \notin {"done", "exit"}
  /\ pending = <<>>
  /\ written < MaxLogLines
  /\ log_file' = log_file \o LogText(kind, written + 1) \o <<"\n">>
  /\ written' = written + 1
  /\ UNCHANGED <<pc, pending, readerVars, logFrame>>

\* The writer appends the first half of a line
WritePart(kind) ==
  /\ pc \notin {"done", "exit"}
  /\ pending = <<>>
  /\ written < MaxLogLines
  /\ LET text == LogText(kind, written + 1)
         half == (Len(text) + 1) \div 2
     IN /\ log_file' = log_file \o SubSeq(text, 1, half)
        /\ pending' = Drop(text, half + 1) \o <<"\n">>
  /\ written' = written + 1
  /\ UNCHANGED <<pc, readerVars, logFrame>>

\* The writer appends the rest of the line and its newline
WriteRest ==
  /\ pc \notin {"done", "exit"}
  /\ pending # <<>>
  /\ log_file' = log_file \o pending
  /\ pending' = <<>>
  /\ UNCHANGED <<pc, written, readerVars, logFrame>>

\* Lines 289-304: open the file, read all its lines, print the header (in
\* follow mode) and "Recent logs:"
ReadLines ==
  /\ pc = "start"
  /\ lines' = readlines(log_file)
  /\ idx' = SliceStart(Len(lines'), nlines)
  /\ out' = out \o (IF follow THEN <<Banner("header")>> ELSE <<>>) \o <<Banner("recent")>>
  /\ pc' = "tail"
  /\ UNCHANGED <<follow, nlines, pos, exit_status, module_colors, writerVars, logFrame>>

\* Lines 306-311 and 314-315: one line of lines[-args.lines:].  An
\* exception leaves the loop and the with block, and is printed.
TailLine ==
  /\ pc = "tail"
  /\ idx <= Len(lines)
  /\ \E e \in {parse_log_line(lines[idx])} :
     \E local \in LocalOffsets :
       \E r \in {ShowEntry(lines[idx], e, module_colors, pads, local)} :
          IF r.fault
          THEN /\ out' = Append(out, Banner("error_reading"))
               /\ pc' = IF follow THEN "follow" ELSE "done"
               /\ UNCHANGED <<idx, module_colors>>
          ELSE /\ out' = out \o Stamp(r.out, OffsetOf(lines, idx), lines[idx])
               /\ module_colors' = r.colors
               /\ idx' = idx + 1
               /\ pc' = pc
  /\ UNCHANGED <<follow, nlines, lines, pos, exit_status, writerVars, logFrame>>

\* Line 313: the empty line after the last line of the tail
TailEnd ==
  /\ pc = "tail"
  /\ idx > Len(lines)
  /\ out' = Append(out, Banner("blank"))
  /\ pc' = IF follow THEN "follow" ELSE "done"
  /\ UNCHANGED <<follow, nlines, lines, idx, pos, exit_status, module_colors, writerVars, logFrame>>

\* Lines 319-324: "Live monitoring", open the file again, seek to its end
FollowOpen ==
  /\ pc = "follow"
  /\ out' = Append(out, Banner("live"))
  /\ pos' = seek_end(log_file)
  /\ pc' = "poll"
  /\ UNCHANGED <<follow, nlines, lines, idx, exit_status, module_colors, writerVars, logFrame>>

\* Lines 326-332 and 337-339: readline gave a line.  An exception is
\* printed and ends the run with status 1.
PollLine ==
  /\ pc = "poll"
  /\ pos < Len(log_file)
  /\ \E got \in {readline(log_file, pos)} :
     \E e \in {parse_log_line(got)} :
       \E local \in LocalOffsets :
         \E r \in {ShowEntry(got, e, module_colors, pads, local)} :
            /\ pos' = pos + Len(got)
            /\ IF r.fault
               THEN /\ out' = Append(out, Banner("error"))
                    /\ exit_status' = 1
                    /\ pc' = "exit"
                    /\ UNCHANGED module_colors
               ELSE /\ out' = out \o Stamp(r.out, pos + 1, got)
                    /\ module_colors' = r.colors
                    /\ UNCHANGED <<pc, exit_status>>
  /\ UNCHANGED <<follow, nlines, lines, idx, writerVars, logFrame>>

\* Lines 333-334: readline gave "", sleep
PollSleep ==
  /\ pc = "poll"
  /\ pos = Len(log_file)
  /\ UNCHANGED vars

\* Lines 335-336: Ctrl+C in the follow loop
Interrupt ==
  /\ pc = "poll"
  /\ out' = Append(out, Banner("stopped"))
  /\ pc' = "done"
  /\ UNCHANGED <<follow, nlines, lines, idx, pos, exit_status, module_colors, writerVars, logFrame>>

NextLog ==
  \/ \E kind \in LogKinds : WriteLine(kind)
  \/ \E kind \in PartKinds : WritePart(kind)
  \/ WriteRest
  \/ ReadLines
  \/ TailLine
  \/ TailEnd
  \/ FollowOpen
  \/ PollLine
  \/ PollSleep
  \/ Interrupt

SpecLog == InitLog /\ [][NextLog]_vars

(* ---------------------- claims on the log formatter -------------------- *)

\* An item that shows a line of the log: the formatted entry or the raw line
IsShown(item) == item.kind \in {"entry", "raw"}

\* The index in out of "Live monitoring", 0 before it is printed
LiveAt == IF \E i \in 1..Len(out) : out[i].kind = "live"
          THEN CHOOSE i \in 1..Len(out) : out[i].kind = "live"
          ELSE 0

\* C4: what the follow loop emits comes from the file in the order in which
\* it was appended, and from after everything the initial tail showed: the
\* characters an item of the follow loop was read from lie wholly behind
\* those of every item printed before it, and every item shows characters
\* that stand in the file.
C4_FollowOrder ==
  /\ \A j \in 1..Len(out) :
       IsShown(out[j]) => SubSeq(log_file, out[j].at, out[j].at + Len(out[j].src) - 1) = out[j].src
  /\ \A i, j \in 1..Len(out) :
       (LiveAt > 0 /\ i < j /\ j > LiveAt /\ IsShown(out[i]) /\ IsShown(out[j]))
         => out[i].at + Len(out[i].src) <= out[j].at

\* The tail has shown a line and the follow loop two lines appended later
C4_Witness ==
  /\ LiveAt > 0
  /\ \E i, j, k \in 1..Len(out) :
       /\ i < LiveAt /\ LiveAt < j /\ j < k
       /\ IsShown(out[i]) /\ IsShown(out[j]) /\ IsShown(out[k])
       /\ out[j].kind = "entry"

\* The step takes the line got and shows it: nothing for a blank line, else
\* one item more, the entry when the line is JSON and the raw line when not,
\* and the loop goes on
ShownStep(got) ==
  /\ pc' = pc
  /\ exit_status' = exit_status
  /\ IF Strip(got) = <<>> THEN out' = out
     ELSE /\ Len(out') = Len(out) + 1
          /\ out'[Len(out')].kind = (IF json_loads(Strip(got)).ok THEN "entry" ELSE "raw")
          /\ out'[Len(out')].src = got

\* C6: every step of the tail's loop and of the follow loop that takes a
\* line prints exactly one item for a line that is not blank (the formatted
\* entry if the line is JSON, the raw line if not) and stays in its loop: no
\* line ends the tail early or ends the run.
C6_EveryLineShown ==
  [][ /\ (pc = "tail" /\ idx <= Len(lines) /\ <<pc, idx, out>>' # <<pc, idx, out>>) => ShownStep(lines[idx])
      /\ (pc = "poll" /\ pos' # pos) => ShownStep(readline(log_file, pos)) ]_vars

\* The field key of the JSON object a line holds (JAbsent without it)
Field(raw, key) ==
  LET d == json_loads(Strip(raw))
  IN IF d.ok /\ d.v.t = "object" THEN Get(d.v, key, JAbsent) ELSE JAbsent

Field0 == Field(raw_line, <<"0">>)

Field1 == Field(raw_line, <<"1">>)

FieldMeta == Field(raw_line, <<"_", "m", "e", "t", "a">>)

\* The string neither starts nor ends with a double quote, or only one of both
Unquoted(s) == ~(StartsWith(s, <<"\"">>) /\ EndsWith(s, <<"\"">>))

\* Field "0" is an unquoted string with a "/" that does not start with http
PathField0 ==
  /\ Field0.t = "str"
  /\ Unquoted(Field0.s)
  /\ Contains(Field0.s, "/")
  /\ ~StartsWith(Field0.s, http)

\* The first segment of field "0" is free of spaces and shorter than 30
ShortSegment == ~Contains(SplitFirst(Field0.s, "/"), " ") /\ Len(SplitFirst(Field0.s, "/")) < 30

\* level is _meta.logLevelName where _meta has one
LevelFromMeta ==
  (FieldMeta.t = "object" /\ \E i \in 1..Len(FieldMeta.s) : FieldMeta.s[i][1] = <<"l", "o", "g", "L", "e", "v", "e", "l", "N", "a", "m", "e">>)
    => entry.level = Get(FieldMeta, <<"l", "o", "g", "L", "e", "v", "e", "l", "N", "a", "m", "e">>, JNull)

NotJsonLike == ~json_loads(Field0.s).ok /\ ~StartsWith(Field0.s, <<"{">>)

IsDateKey(d) ==
  Len(d) = 10 /\ DigitsAt(d, 1, 4) /\ d[5] = "-" /\ DigitsAt(d, 6, 2) /\ d[8] = "-" /\ DigitsAt(d, 9, 2)

\* The day of a date key as one number that grows with the calendar
DayNumber(d) == DecVal(SubSeq(d, 1, 4)) * 10000 + DecVal(SubSeq(d, 6, 7)) * 100 + DecVal(SubSeq(d, 9, 10))

\* C11: in a printed report of either format the dates are those of the
\* merged mapping, each once and in ascending string order; dates of the
\* shape YYYY-MM-DD come in calendar order, and "unknown", when there, is
\* the last.
C11_DatesAscending ==
  (pc = "done" /\ stdout # NoReport) =>
    LET ds == stdout.dates
    IN /\ Len(ds) = Cardinality(DOMAIN aggregated)
       /\ {ds[i].date : i \in 1..Len(ds)} = DOMAIN aggregated
       /\ \A i \in 1..(Len(ds) - 1) : StrLess(ds[i].date, ds[i + 1].date)
       /\ \A i, j \in 1..Len(ds) :
            (i < j /\ IsDateKey(ds[i].date) /\ IsDateKey(ds[j].date))
              => DayNumber(ds[i].date) < DayNumber(ds[j].date)
       /\ \A i \in 1..Len(ds) : ds[i].date = unknown => i = Len(ds)

\* A printed report of two dates whose later date was read first
C11_Witness ==
  /\ pc = "done"
  /\ stdout # NoReport
  /\ Len(stdout.dates) = 2
  /\ IsDateKey(stdout.dates[1].date) /\ IsDateKey(stdout.dates[2].date)
  /\ Len(Concat(files)) = 2
  /\ DateKey(provider, Concat(files)[1], pads) = stdout.dates[2].date
  /\ DateKey(provider, Concat(files)[2], pads) = stdout.dates[1].date

(* ---------------------- claims on the lines skipped -------------------- *)

\* A line that is blank, is no JSON text json.loads decodes, has a root
\* that is no object, or has no timestamp or an empty one
IsSkipLine(line) ==
  \/ line.kind \in {"blank", "badjson", "nonobject", "deep"}
  \/ line.kind = "object" /\ (line.timestamp.t = "absent" \/ (line.timestamp.t = "str" /\ line.timestamp.s = <<>>))

NotSkipLine(line) == ~IsSkipLine(line)

\* The line process_jsonl_file has read last
LastRead(fs) == fs[Len(fs)][Len(fs[Len(fs)])]

\* C12: reading a line that is blank, fails JSON parsing, has a root that is
\* no object, or has an absent or empty timestamp changes nothing of the
\* mapping and the loop goes on; and while a file is read the mapping is
\* what the other lines alone give, so every line after such a line is
\* processed.
C12_SkippedLines ==
  /\ [][(pc = "read" /\ files' # files /\ IsSkipLine(LastRead(files')))
          => (daily' = daily /\ pc' = "read" /\ stderr' = stderr /\ rc' = rc)]_vars
  /\ [](pc = "read" =>
          daily = process_jsonl_file(provider, SelectSeq(files[Len(files)], NotSkipLine), pads))

(* --------------------- claims on a quoted field "0" -------------------- *)

\* Field "0" is a string that starts and ends with a double quote
QuotedField0 == Field0.t = "str" /\ StartsWith(Field0.s, <<"\"">>) /\ EndsWith(Field0.s, <<"\"">>)

\* msg_0[1:-1]
Inner == SubSeq(Field0.s, 2, Len(Field0.s) - 1)

\* The unquoted content looks like a subsystem path
InnerIsPath ==
  /\ Contains(Inner, "/")
  /\ ~StartsWith(Inner, http)
  /\ ~Contains(SplitFirst(Inner, "/"), " ")
  /\ Len(SplitFirst(Inner, "/")) < 30

\* C13: for every line whose field "0" is a string in double quotes (the
\* JSON string literals among them), and whose _meta is absent or an object,
\* parse_log_line returns an entry; its module is the first segment of the
\* unquoted content when that content has a "/", does not start with http
\* and its first segment is space-free and short; otherwise the module is
\* empty and, without a field "1", the message is the unquoted content.
C13_QuotedField0 ==
  (pc # "line" /\ QuotedField0 /\ FieldMeta.t \in {"absent", "object"}) =>
    /\ entry.kind = "entry"
    /\ entry.module.t = "str"
    /\ InnerIsPath => entry.module.s = SplitFirst(Inner, "/")
    /\ ~InnerIsPath => entry.module.s = <<>>
    /\ (~InnerIsPath /\ Field1.t = "absent") => entry.message = Inner

(* -------------------- claims on newlines in messages ------------------- *)

\* s holds a backslash followed by the letter n
HasEscapedNewline(s) == \E i \in 1..(Len(s) - 1) : s[i] = "\\" /\ s[i + 1] = "n"

\* C14: the message of every entry parse_log_line returns holds neither a
\* newline nor a backslash followed by n, whichever field it came from.
C14_NoNewlines ==
  (pc # "line" /\ entry.kind = "entry") =>
    (~Contains(entry.message, "\n") /\ ~HasEscapedNewline(entry.message))

(* ---------------------- claims on the initial tail --------------------- *)

Min(a, b) == IF a < b THEN a ELSE b

\* The index of the first of the last min(nlines, L) lines of the L lines read
WindowStart == Len(lines) - Min(nlines, Len(lines)) + 1

\* C15: the initial tail works on the last min(N, L) lines of the L lines
\* it read and on no line before them: the loop's position is never before
\* the first of those lines, and nothing it has shown comes from before it
\* (with N = 0, from nowhere).
C15_TailWindow ==
  pc = "tail" =>
    /\ idx >= WindowStart
    /\ \A j \in 1..Len(out) : IsShown(out[j]) => out[j].at >= OffsetOf(lines, WindowStart)

(* ----------------------- claims on the follow loop --------------------- *)

\* The number of characters the initial tail has read from the file
TailLen == Len(Concat(lines))

\* The item is a line (or a piece of one) the follow loop has read
IsPolled(j) == LiveAt > 0 /\ j > LiveAt /\ IsShown(out[j])

\* C16: in follow mode nothing the writer appends after the initial tail
\* has read the file is lost or shown in pieces: every whole line that is
\* not blank, starts behind what the tail read and ends before the follow
\* loop's position has been shown, once, as one item; and every item the
\* follow loop has shown is a whole line, newline included.
C16_NothingLost ==
  pc = "poll" =>
    /\ \A i \in 1..Len(readlines(log_file)) :
         LET start == OffsetOf(readlines(log_file), i)
             text == readlines(log_file)[i]
         IN (start > TailLen /\ start + Len(text) - 1 <= pos /\ Strip(text) # <<>>)
              => Cardinality({j \in 1..Len(out) : IsShown(out[j]) /\ out[j].at = start /\ out[j].src = text}) = 1
    /\ \A j \in 1..Len(out) : IsPolled(j) => EndsWith(out[j].src, <<"\n">>)

(* --------------------- claims on all-or-nothing merging ---------------- *)

\* Every counter of the record has been added to the bucket of its date,
\* and nothing else of the mapping has changed its counters.
AllAdded(p, before, after, line, pd) ==
  /\ line.kind = "object"
  /\ Truthy(line.timestamp)
  /\ \A k \in KeySet(p) : Tokens(p, line)[k].t = "int"
  /\ DOMAIN after = (DOMAIN before) \cup {DateKey(p, line, pd)}
  /\ \A k \in KeySet(p) :
       after[DateKey(p, line, pd)][k] = Bucket(p, before, DateKey(p, line, pd))[k] + Tokens(p, line)[k].n
  /\ \A d \in (DOMAIN before) \ {DateKey(p, line, pd)} : after[d] = before[d]

\* C17: each record is merged all-or-nothing: a line that process_jsonl_file
\* reads either leaves the mapping as it was, with no counter added and no
\* bucket made, or has every counter of its record added to the bucket of
\* its date; a record with a counter of a wrong type leaves the mapping as
\* it was.
C17_AllOrNothing ==
  [][(pc = "read" /\ pc' = "read" /\ files' # files) =>
       /\ daily' = daily \/ AllAdded(provider, daily, daily', LastRead(files'), pads)
       /\ (/\ LastRead(files').kind = "object"
           /\ \E k \in KeySet(provider) : Tokens(provider, LastRead(files'))[k].t # "int")
            => daily' = daily]_vars

====
